---- MODULE Spec2Model ----
(***************************************************************************)
(* Offer synchronization engine of otomoto-scraper:                        *)
(*   src/src/database.py       OfferDatabase  (the persisted offer store)   *)
(*   src/src/offer_manager.py  OfferManager   (the orchestrator)            *)
(*   src/src/scrapers/scraper.py  Scraper     (the fetch executor)          *)
(*                                                                         *)
(* The persisted store (the XLSX file) is the state.  Every store           *)
(* operation is load -> modify -> save; the file is modelled as the bag     *)
(* (multiset) of its rows.  The row order of the file is left out: the      *)
(* only place where the code's result depends on it is the choice among     *)
(* rows that tie on every sort key in remove_duplicates, which is modelled  *)
(* as a nondeterministic choice among the tied rows.                        *)
(***************************************************************************)
EXTENDS Integers, Sequences, FiniteSets, Bags, TLC

\* ---------------------------------------------------------------- bounds
\* Longest discovery result (offer links of one search) and longest batch.
MaxLinks == 2
\* Largest clock reading.
MaxTime == 1
\* Most rows of a store file of arbitrary content (SpecDedup).
MaxRows == 2

\* Offer URLs (listing identities) and search URLs (queries).
Urls == {"A", "B"}
Queries == {"q1", "q2"}
\* A scraped offer: the url it is filed under and the page its features
\* were read from (get_offer reads the page of the link it is given).
Offers == {[url |-> u, page |-> u] : u \in Urls}
\* The url of a record that has none (NaN in the url column).
NoUrl == "None"

\* What get_offer can do for one link: return the features of the page,
\* return an empty feature dict, return None (mocked collaborator), raise.
FetchOutcomes == {"ok", "empty", "none", "raise"}

VARIABLES
    store,   \* the rows of the XLSX file: a bag of offer rows
    now,     \* the wall clock (datetime.now())
    call,    \* the operation that has just run: its inputs, the store before
             \* it, and the value it returned (NoCall once the caller has it)
    pool     \* the Scraper.scrape call in progress: its futures, its worker
             \* threads and its results (NoPool when none is followed)

vars == <<store, now, call, pool>>

\* ------------------------------------------------------------- helpers
RECURSIVE SumOver(_, _)
SumOver(S, f) ==
    IF S = {} THEN 0
    ELSE LET x == CHOOSE y \in S : TRUE
         IN  f[x] + SumOver(S \ {x}, f)

\* len(df)
Rows(s) == SumOver(DOMAIN s, s)

\* The frame with every row x replaced by f[x] (rows that become equal add up).
MapRows(s, f) ==
    LET img == {f[x] : x \in DOMAIN s}
    IN  [y \in img |-> SumOver({x \in DOMAIN s : f[x] = y}, s)]

\* The frame holding the rows of a sequence of rows.
RECURSIVE SeqToBag(_)
SeqToBag(sq) ==
    IF sq = <<>> THEN EmptyBag
    ELSE SetToBag({Head(sq)}) (+) SeqToBag(Tail(sq))

SeqRange(sq) == {sq[i] : i \in DOMAIN sq}

\* A list holding the elements of the set S, each once.
RECURSIVE SetToSeq(_)
SetToSeq(S) ==
    IF S = {} THEN <<>>
    ELSE LET x == CHOOSE y \in S : TRUE
         IN  <<x>> \o SetToSeq(S \ {x})

\* Sequences over S of length at most n.
SeqsUpTo(S, n) == UNION {[1..k -> S] : k \in 0..n}

\* df[df["url"].isin(urls)] : the rows of the frame with url in urls
RowsOf(s, urls) == {r \in DOMAIN s : r.url \in urls}

\* number of rows of the frame with the url
Copies(s, u) == SumOver(RowsOf(s, {u}), s)

\* number of inactive rows of the frame with the url and the search url
InactiveCopies(s, u, q) ==
    SumOver({r \in RowsOf(s, {u}) : ~r.is_active /\ r.search_url = q}, s)

\* ------------------------------------------------------- OfferDatabase
\* _create_empty_dataframe / load_offers of a file that does not exist
EmptyStore == EmptyBag

\* get_all_urls
get_all_urls(s) == {r.url : r \in DOMAIN s}

\* get_urls_for_search_url without the filter on search_url
get_urls_any_search_url(s, search_url) == get_all_urls(s)

\* get_urls_for_search_url
get_urls_for_search_url(s, search_url) ==
    {r.url : r \in {x \in DOMAIN s : x.search_url = search_url}}

\* mark_inactive with the set difference the wrong way round
mark_inactive_swapped(s, offer_urls, search_url, t) ==
    LET previous_urls == get_urls_for_search_url(s, search_url)
        current_urls  == SeqRange(offer_urls)
        missing_urls  == current_urls \ previous_urls
        Mark(r) == IF r.url \in missing_urls
                   THEN [r EXCEPT !.is_active = FALSE, !.last_seen = t]
                   ELSE r
    IN  IF missing_urls # {}
        THEN [store |-> MapRows(s, [r \in DOMAIN s |-> Mark(r)]), ret |-> Cardinality(missing_urls),
              saved |-> TRUE]
        ELSE [store |-> s, ret |-> 0, saved |-> FALSE]

\* mark_inactive writing the time into first_seen as well
mark_inactive_first_seen(s, offer_urls, search_url, t) ==
    LET previous_urls == get_urls_for_search_url(s, search_url)
        current_urls  == SeqRange(offer_urls)
        missing_urls  == previous_urls \ current_urls
        Mark(r) == IF r.url \in missing_urls
                   THEN [r EXCEPT !.is_active = FALSE, !.last_seen = t, !.first_seen = t]
                   ELSE r
    IN  IF missing_urls # {}
        THEN [store |-> MapRows(s, [r \in DOMAIN s |-> Mark(r)]), ret |-> Cardinality(missing_urls),
              saved |-> TRUE]
        ELSE [store |-> s, ret |-> 0, saved |-> FALSE]

\* mark_inactive: [store |-> the frame afterwards, ret |-> the returned count,
\* saved |-> save_offers was called with the frame]
mark_inactive(s, offer_urls, search_url, t) ==
    LET previous_urls == get_urls_for_search_url(s, search_url)
        current_urls  == SeqRange(offer_urls)
        missing_urls  == previous_urls \ current_urls
        Mark(r) == IF r.url \in missing_urls
                   THEN [r EXCEPT !.is_active = FALSE, !.last_seen = t]
                   ELSE r
    IN  IF missing_urls # {}
        THEN [store |-> MapRows(s, [r \in DOMAIN s |-> Mark(r)]), ret |-> Cardinality(missing_urls),
              saved |-> TRUE]
        ELSE [store |-> s, ret |-> 0, saved |-> FALSE]

\* add_new_offers that also files the stored rows of the batch's urls under
\* the search url of the call
add_new_offers_refile(s, new_offers, search_url, t) ==
    LET existing_urls  == get_all_urls(s)
        new_urls       == {new_offers[i].url : i \in DOMAIN new_offers}
        truly_new_urls == new_urls \ existing_urls
        IsNew(o)       == o.url \in truly_new_urls
        filtered       == SelectSeq(new_offers, IsNew)
        stamped        == [i \in DOMAIN filtered |->
                             [url        |-> filtered[i].url,
                              page       |-> filtered[i].page,
                              first_seen |-> t,
                              last_seen  |-> t,
                              is_active  |-> TRUE,
                              search_url |-> search_url]]
        Refile(r)      == IF r.url \in new_urls
                          THEN [r EXCEPT !.search_url = search_url]
                          ELSE r
        refiled        == MapRows(s, [r \in DOMAIN s |-> Refile(r)])
    IN  IF new_offers = <<>> THEN [store |-> s, ret |-> 0, saved |-> FALSE]
        ELSE [store |-> refiled (+) SeqToBag(stamped), ret |-> Len(filtered), saved |-> TRUE]

\* add_new_offers filtering against the urls of its own search url only
add_new_offers_query_scoped(s, new_offers, search_url, t) ==
    LET existing_urls  == get_urls_for_search_url(s, search_url)
        new_urls       == {new_offers[i].url : i \in DOMAIN new_offers}
        truly_new_urls == new_urls \ existing_urls
        IsNew(o)       == o.url \in truly_new_urls
        filtered       == SelectSeq(new_offers, IsNew)
        stamped        == [i \in DOMAIN filtered |->
                             [url        |-> filtered[i].url,
                              page       |-> filtered[i].page,
                              first_seen |-> t,
                              last_seen  |-> t,
                              is_active  |-> TRUE,
                              search_url |-> search_url]]
    IN  IF new_offers = <<>> THEN [store |-> s, ret |-> 0, saved |-> FALSE]
        ELSE IF truly_new_urls = {} THEN [store |-> s, ret |-> 0, saved |-> FALSE]
        ELSE [store |-> s (+) SeqToBag(stamped), ret |-> Len(filtered), saved |-> TRUE]

\* add_new_offers without dropna(): a missing url counts as a new url
add_new_offers_keep_null(s, new_offers, search_url, t) ==
    LET existing_urls  == get_all_urls(s)
        new_urls       == {new_offers[i].url : i \in DOMAIN new_offers}
        truly_new_urls == new_urls \ existing_urls
        IsNew(o)       == o.url \in truly_new_urls
        filtered       == SelectSeq(new_offers, IsNew)
        stamped        == [i \in DOMAIN filtered |->
                             [url        |-> filtered[i].url,
                              page       |-> filtered[i].page,
                              first_seen |-> t,
                              last_seen  |-> t,
                              is_active  |-> TRUE,
                              search_url |-> search_url]]
    IN  IF new_offers = <<>> THEN [store |-> s, ret |-> 0, saved |-> FALSE]
        ELSE IF truly_new_urls = {} THEN [store |-> s, ret |-> 0, saved |-> FALSE]
        ELSE [store |-> s (+) SeqToBag(stamped), ret |-> Len(filtered), saved |-> TRUE]

\* add_new_offers; new_offers is a sequence of scraped rows [url, page]
add_new_offers(s, new_offers, search_url, t) ==
    LET existing_urls  == get_all_urls(s)
        new_urls       == {new_offers[i].url : i \in DOMAIN new_offers} \ {NoUrl}
        truly_new_urls == new_urls \ existing_urls
        IsNew(o)       == o.url \in truly_new_urls
        filtered       == SelectSeq(new_offers, IsNew)
        stamped        == [i \in DOMAIN filtered |->
                             [url        |-> filtered[i].url,
                              page       |-> filtered[i].page,
                              first_seen |-> t,
                              last_seen  |-> t,
                              is_active  |-> TRUE,
                              search_url |-> search_url]]
    IN  IF new_offers = <<>> THEN [store |-> s, ret |-> 0, saved |-> FALSE]
        ELSE IF truly_new_urls = {} THEN [store |-> s, ret |-> 0, saved |-> FALSE]
        ELSE [store |-> s (+) SeqToBag(stamped), ret |-> Len(filtered), saved |-> TRUE]

\* update_existing_offers stamping first_seen as well
update_existing_offers_restamp(s, updated_offers, t) ==
    LET updated_urls == SeqRange(updated_offers)
        Touch(r) == IF r.url \in updated_urls
                    THEN [r EXCEPT !.last_seen = t, !.first_seen = t, !.is_active = TRUE]
                    ELSE r
    IN  IF updated_offers = <<>> THEN [store |-> s, ret |-> 0, saved |-> FALSE]
        ELSE [store |-> MapRows(s, [r \in DOMAIN s |-> Touch(r)]),
              ret   |-> SumOver(RowsOf(s, updated_urls), s),
              saved |-> TRUE]

\* update_existing_offers that leaves last_seen alone
update_existing_offers_no_stamp(s, updated_offers, t) ==
    LET updated_urls == SeqRange(updated_offers)
        Touch(r) == IF r.url \in updated_urls
                    THEN [r EXCEPT !.is_active = TRUE]
                    ELSE r
    IN  IF updated_offers = <<>> THEN [store |-> s, ret |-> 0, saved |-> FALSE]
        ELSE [store |-> MapRows(s, [r \in DOMAIN s |-> Touch(r)]),
              ret   |-> SumOver(RowsOf(s, updated_urls), s),
              saved |-> TRUE]

\* update_existing_offers that leaves is_active alone
update_existing_offers_no_reactivate(s, updated_offers, t) ==
    LET updated_urls == SeqRange(updated_offers)
        Touch(r) == IF r.url \in updated_urls
                    THEN [r EXCEPT !.last_seen = t]
                    ELSE r
    IN  IF updated_offers = <<>> THEN [store |-> s, ret |-> 0, saved |-> FALSE]
        ELSE [store |-> MapRows(s, [r \in DOMAIN s |-> Touch(r)]),
              ret   |-> SumOver(RowsOf(s, updated_urls), s),
              saved |-> TRUE]

\* update_existing_offers touching only the rows that are still active
update_existing_offers_active_only(s, updated_offers, t) ==
    LET updated_urls == SeqRange(updated_offers)
        Touch(r) == IF r.url \in updated_urls /\ r.is_active
                    THEN [r EXCEPT !.last_seen = t]
                    ELSE r
    IN  IF updated_offers = <<>> THEN [store |-> s, ret |-> 0, saved |-> FALSE]
        ELSE [store |-> MapRows(s, [r \in DOMAIN s |-> Touch(r)]),
              ret   |-> SumOver(RowsOf(s, updated_urls), s),
              saved |-> TRUE]

\* update_existing_offers without the mask: every row is touched
update_existing_offers_all_rows(s, updated_offers, t) ==
    LET updated_urls == SeqRange(updated_offers)
        Touch(r) == [r EXCEPT !.last_seen = t, !.is_active = TRUE]
    IN  IF updated_offers = <<>> THEN [store |-> s, ret |-> 0, saved |-> FALSE]
        ELSE [store |-> MapRows(s, [r \in DOMAIN s |-> Touch(r)]),
              ret   |-> SumOver(RowsOf(s, updated_urls), s),
              saved |-> TRUE]

\* update_existing_offers; updated_offers is the sequence of the urls column
update_existing_offers(s, updated_offers, t) ==
    LET updated_urls == SeqRange(updated_offers)
        Touch(r) == IF r.url \in updated_urls
                    THEN [r EXCEPT !.last_seen = t, !.is_active = TRUE]
                    ELSE r
    IN  IF updated_offers = <<>> THEN [store |-> s, ret |-> 0, saved |-> FALSE]
        ELSE [store |-> MapRows(s, [r \in DOMAIN s |-> Touch(r)]),
              ret   |-> SumOver(RowsOf(s, updated_urls), s),
              saved |-> TRUE]

\* the sort key with last_seen ahead of is_active
Before_last_seen_first(r1, r2) ==
    \/ r1.last_seen > r2.last_seen
    \/ r1.last_seen = r2.last_seen /\ (r1.is_active \/ ~r2.is_active)

\* sort key of remove_duplicates: is_active descending, last_seen descending
Before(r1, r2) ==
    \/ r1.is_active /\ ~r2.is_active
    \/ r1.is_active = r2.is_active /\ r1.last_seen >= r2.last_seen

\* the rows that can come first for a url after the sort
FirstRows(s, u) ==
    {r \in RowsOf(s, {u}) : \A r2 \in RowsOf(s, {u}) : Before(r, r2)}

\* remove_duplicates dropping duplicates by url and is_active
remove_duplicates_by_status(s) ==
    IF s = EmptyBag THEN {[store |-> s, ret |-> 0, saved |-> FALSE]}
    ELSE LET keys == {<<r.url, r.is_active>> : r \in DOMAIN s}
             Group(k) == {r \in DOMAIN s : r.url = k[1] /\ r.is_active = k[2]}
             picks == {f \in [keys -> DOMAIN s] : \A k \in keys :
                          /\ f[k] \in Group(k)
                          /\ \A r2 \in Group(k) : f[k].last_seen >= r2.last_seen}
         IN  {LET final == SetToBag({f[k] : k \in keys})
                  removed == Rows(s) - Rows(final)
              IN  [store |-> IF removed > 0 THEN final ELSE s, ret |-> removed,
                   saved |-> removed > 0]
              : f \in picks}

\* remove_duplicates keeping the first row of a url only when it is active
remove_duplicates_active_only(s) ==
    IF s = EmptyBag THEN {[store |-> s, ret |-> 0, saved |-> FALSE]}
    ELSE LET us == get_all_urls(s)
             picks == {f \in [us -> DOMAIN s] : \A u \in us : f[u] \in FirstRows(s, u)}
         IN  {LET final == SetToBag({f[u] : u \in {v \in us : f[v].is_active}})
                  removed == Rows(s) - Rows(final)
              IN  [store |-> IF removed > 0 THEN final ELSE s, ret |-> removed,
                   saved |-> removed > 0]
              : f \in picks}

\* remove_duplicates: the possible results, one per choice among tied rows
remove_duplicates(s) ==
    IF s = EmptyBag THEN {[store |-> s, ret |-> 0, saved |-> FALSE]}
    ELSE LET us == get_all_urls(s)
             picks == {f \in [us -> DOMAIN s] : \A u \in us : f[u] \in FirstRows(s, u)}
         IN  {LET final == SetToBag({f[u] : u \in us})
                  removed == Rows(s) - Rows(final)
              IN  [store |-> IF removed > 0 THEN final ELSE s, ret |-> removed,
                   saved |-> removed > 0]
              : f \in picks}

\* ------------------------------------------------------------- Scraper
\* get_offer(link) under an outcome: the features of the page, or a failure
get_offer(link, outcome) ==
    IF outcome = "ok" THEN [kind |-> "dict", page |-> link]
    ELSE IF outcome = "empty" THEN [kind |-> "emptydict"]
    ELSE IF outcome = "none" THEN [kind |-> "None"]
    ELSE [kind |-> "exception"]

\* Scraper.scrape: one result per url, in the order of urls; an exception
\* of the work function becomes None
scrape(urls, outcomes) ==
    [i \in DOMAIN urls |->
        LET result == get_offer(urls[i], outcomes[i])
        IN  IF result.kind = "exception" THEN [kind |-> "None"] ELSE result]

\* _scrape_offers keeping a record for a link whose fetch failed
RECURSIVE ValidOffers_keep_failed(_, _)
ValidOffers_keep_failed(scraped, links) ==
    IF links = <<>> THEN <<>>
    ELSE LET offer == Head(scraped)
             rest  == ValidOffers_keep_failed(Tail(scraped), Tail(links))
         IN  IF offer.kind = "dict"
             THEN <<[url |-> Head(links), page |-> offer.page]>> \o rest
             ELSE <<[url |-> Head(links), page |-> Head(links)]>> \o rest

\* ------------------------------------------------------- OfferManager
\* _scrape_offers: the valid offers, each with the url it was scraped for
RECURSIVE ValidOffers(_, _)
ValidOffers(scraped, links) ==
    IF links = <<>> THEN <<>>
    ELSE LET offer == Head(scraped)
             rest  == ValidOffers(Tail(scraped), Tail(links))
         IN  IF offer.kind = "dict"
             THEN <<[url |-> Head(links), page |-> offer.page]>> \o rest
             ELSE rest

scrape_offers(offer_links, outcomes) ==
    IF offer_links = <<>> THEN <<>>
    ELSE ValidOffers(scrape(offer_links, outcomes), offer_links)

\* _update_database refreshing only the stored urls of this search url
\* (a stored offer of another search url is then not refreshed).
update_database_own_query(s, search_url, all_offer_links, scraped_offers, new_offer_links, t1, t2, t3) ==
    LET added == IF scraped_offers # <<>>
                 THEN add_new_offers(s, scraped_offers, search_url, t1)
                 ELSE [store |-> s, ret |-> 0]
        all_existing_urls == get_urls_for_search_url(added.store, search_url)
        InStore(u) == u \in all_existing_urls
        current_existing_urls == SelectSeq(all_offer_links, InStore)
        updated == IF current_existing_urls # <<>>
                   THEN update_existing_offers(added.store, current_existing_urls, t2)
                   ELSE [store |-> added.store, ret |-> 0]
        marked == mark_inactive(updated.store, all_offer_links, search_url, t3)
    IN  [store |-> marked.store,
         stats |-> [total_found |-> Len(all_offer_links), new_offers |-> added.ret,
                    updated_offers |-> updated.ret, inactive_offers |-> marked.ret,
                    failed_scrapes |-> Len(new_offer_links) - Len(scraped_offers)]]

\* _update_database reading the stored urls before add_new_offers has run
\* (the offers added by this run are then not refreshed and not counted).
update_database_before_add(s, search_url, all_offer_links, scraped_offers, new_offer_links, t1, t2, t3) ==
    LET added == IF scraped_offers # <<>>
                 THEN add_new_offers(s, scraped_offers, search_url, t1)
                 ELSE [store |-> s, ret |-> 0]
        all_existing_urls == get_all_urls(s)
        InStore(u) == u \in all_existing_urls
        current_existing_urls == SelectSeq(all_offer_links, InStore)
        updated == IF current_existing_urls # <<>>
                   THEN update_existing_offers(added.store, current_existing_urls, t2)
                   ELSE [store |-> added.store, ret |-> 0]
        marked == mark_inactive(updated.store, all_offer_links, search_url, t3)
    IN  [store |-> marked.store,
         stats |-> [total_found |-> Len(all_offer_links), new_offers |-> added.ret,
                    updated_offers |-> updated.ret, inactive_offers |-> marked.ret,
                    failed_scrapes |-> Len(new_offer_links) - Len(scraped_offers)]]

\* _update_database
update_database(s, search_url, all_offer_links, scraped_offers, new_offer_links, t1, t2, t3) ==
    LET added == IF scraped_offers # <<>>
                 THEN add_new_offers(s, scraped_offers, search_url, t1)
                 ELSE [store |-> s, ret |-> 0]
        all_existing_urls == get_all_urls(added.store)
        InStore(u) == u \in all_existing_urls
        current_existing_urls == SelectSeq(all_offer_links, InStore)
        updated == IF current_existing_urls # <<>>
                   THEN update_existing_offers(added.store, current_existing_urls, t2)
                   ELSE [store |-> added.store, ret |-> 0]
        marked == mark_inactive(updated.store, all_offer_links, search_url, t3)
    IN  [store |-> marked.store,
         stats |-> [total_found     |-> Len(all_offer_links),
                    new_offers      |-> added.ret,
                    updated_offers  |-> updated.ret,
                    inactive_offers |-> marked.ret,
                    failed_scrapes  |-> Len(new_offer_links) - Len(scraped_offers)]]

\* new_offer_links computed against the urls of the active rows only
NewOfferLinks_active_only(s, offer_links) ==
    LET existing_urls == {r.url : r \in {x \in DOMAIN s : x.is_active}}
        NotStored(u) == u \notin existing_urls
    IN  SelectSeq(offer_links, NotStored)

\* the links of a discovery result that are not in the store
NewOfferLinks(s, offer_links) ==
    LET existing_urls == get_all_urls(s)
        NotStored(u) == u \notin existing_urls
    IN  SelectSeq(offer_links, NotStored)

\* update_offers, given what _get_all_offer_links and get_offer deliver
update_offers(s, search_url, offer_links, outcomes, t1, t2, t3) ==
    LET new_offer_links == NewOfferLinks(s, offer_links)
        scraped_offers  == IF new_offer_links # <<>>
                           THEN scrape_offers(new_offer_links, outcomes)
                           ELSE <<>>
        r == update_database(s, search_url, offer_links, scraped_offers, new_offer_links, t1, t2, t3)
    IN  [store |-> r.store, stats |-> r.stats, fetched |-> new_offer_links]

\* ------------------------------------------- Scraper.scrape, by thread
\* Most urls of one scrape call, and most worker threads.
MaxItems == 3
MaxWorkers == 2

\* What the work function does for one url here: return or raise.
ScrapOutcomes == {"ok", "raise"}

\* a worker thread that has not run a unit of work yet
NewThread == [state |-> "idle", item |-> 0, paused |-> TRUE, paced |-> TRUE]

\* The scrape call as it starts: no future submitted, no thread started.
\*   future[i]  "new" (not submitted), "pending", "result" or "exception"
\*   queue      the work queue of the executor (positions of urls)
\*   threads    the worker threads; paused: the thread slept since the unit
\*              it ran last; paced: it had when it took the unit it runs
\*   calls[i]   how often scrap_fn was called for position i
\*   finished   the positions in the order their futures completed
StartPool(urls, outcomes, num_workers) ==
    [urls        |-> urls,
     outcomes    |-> outcomes,
     num_workers |-> num_workers,
     submitted   |-> 0,
     queue       |-> <<>>,
     threads     |-> <<>>,
     future      |-> [i \in DOMAIN urls |-> "new"],
     calls       |-> [i \in DOMAIN urls |-> 0],
     finished    |-> <<>>,
     results     |-> <<>>,
     collected   |-> {},
     raised      |-> FALSE,
     returned    |-> FALSE]

\* ThreadPoolExecutor(max_workers=self.num_workers) with one more thread
max_workers_plus_one(num_workers) == num_workers + 1

\* ThreadPoolExecutor(max_workers=self.num_workers): the most threads
max_workers(num_workers) == num_workers

\* executor.submit(self._internal_scrap, url) for the next url: the future
\* is queued, and a thread is started while there are fewer than max_workers
submit(p) ==
    LET i == p.submitted + 1
    IN  [p EXCEPT !.submitted = i,
                  !.queue     = Append(@, i),
                  !.future[i] = "pending",
                  !.threads   = IF Len(@) < max_workers(p.num_workers)
                                THEN Append(@, NewThread)
                                ELSE @]

\* a thread taking a unit of work that stays in the queue
take_peek(p, w) ==
    LET i == Head(p.queue)
    IN  [p EXCEPT !.calls[i]   = @ + 1,
                  !.threads[w] = [state |-> "work", item |-> i,
                                  paused |-> @.paused, paced |-> @.paused]]

\* an idle thread w takes the unit of work at the head of the queue and
\* calls _internal_scrap, which calls scrap_fn(url)
take(p, w) ==
    LET i == Head(p.queue)
    IN  [p EXCEPT !.queue      = Tail(@),
                  !.calls[i]   = @ + 1,
                  !.threads[w] = [state |-> "work", item |-> i,
                                  paused |-> @.paused, paced |-> @.paused]]

\* _internal_scrap: scrap_fn returned, time.sleep(self.pause) begins
scrap_returns(p, w) == [p EXCEPT !.threads[w].state = "sleep"]

\* _internal_scrap: scrap_fn raised; the exception leaves _internal_scrap
\* before time.sleep and completes the future
scrap_raises(p, w) ==
    LET i == p.threads[w].item
    IN  [p EXCEPT !.future[i]  = "exception",
                  !.finished   = Append(@, i),
                  !.threads[w] = [state |-> "idle", item |-> 0,
                                  paused |-> FALSE, paced |-> @.paced]]

\* _internal_scrap: time.sleep is over and the thread is free, with the
\* future left pending
sleep_ends_future_pending(p, w) ==
    [p EXCEPT !.threads[w] = [state |-> "idle", item |-> 0,
                              paused |-> TRUE, paced |-> @.paced]]

\* _internal_scrap: time.sleep is over, return res completes the future
sleep_ends(p, w) ==
    LET i == p.threads[w].item
    IN  [p EXCEPT !.future[i]  = "result",
                  !.finished   = Append(@, i),
                  !.threads[w] = [state |-> "idle", item |-> 0,
                                  paused |-> TRUE, paced |-> @.paced]]

\* the loop over the futures taking them as they complete
next_future_as_completed(p) ==
    LET done == {i \in DOMAIN p.urls : p.future[i] \in {"result", "exception"}}
    IN  IF done \ p.collected = {} THEN Len(p.results) + 1
        ELSE CHOOSE i \in done \ p.collected :
                \A j \in done \ p.collected : i >= j

\* for i, future in enumerate(futures): the futures in the order of urls
next_future(p) == Len(p.results) + 1

\* the loop body with no except clause: the exception leaves scrape
collect_propagate(p, i) ==
    IF p.future[i] = "exception"
    THEN [p EXCEPT !.raised = TRUE, !.returned = TRUE]
    ELSE [p EXCEPT !.results   = Append(@, get_offer(p.urls[i], p.outcomes[i])),
                   !.collected = @ \cup {i}]

\* the loop body for the completed future i: future.result() appended, or
\* None when it raises
collect(p, i) ==
    IF p.future[i] = "exception"
    THEN [p EXCEPT !.results   = Append(@, [kind |-> "None"]),
                   !.collected = @ \cup {i}]
    ELSE [p EXCEPT !.results   = Append(@, get_offer(p.urls[i], p.outcomes[i])),
                   !.collected = @ \cup {i}]

\* ---------------------------------------------- store and fetch failures
\* Most result pages of one search.
MaxPages == 2

\* load_offers of an existing file: its rows, or the empty frame when
\* read_excel raises (the exception is logged, not raised)
load_offers(f, readable) == IF readable THEN f ELSE EmptyStore

\* The save_offers call that ends a store operation; r is what the operation
\* computed from the frame it loaded.  to_excel overwrites the file or
\* raises, and save_offers raises again what it caught.
save_offers(f, r, save_ok) ==
    [file   |-> IF r.saved /\ save_ok THEN r.store ELSE f,
     raised |-> r.saved /\ ~save_ok,
     ret    |-> r.ret]

\* What get_offer_links_on_page can do for one result page: return its
\* links (none when the fetch or the parse failed), or raise.
PageOutcomes ==
    {[kind |-> "raise"]} \cup
    {[kind |-> "list", links |-> l] : l \in SeqsUpTo(Urls, MaxLinks \div MaxPages)}

\* chain.from_iterable over the results of the pages
RECURSIVE Flatten(_)
Flatten(nested) ==
    IF nested = <<>> THEN <<>>
    ELSE Head(nested).links \o Flatten(Tail(nested))

\* _get_all_offer_links, given the page count get_offer_pages returned (1
\* when it failed) and what get_offer_links_on_page does for each page.
\* Scraper.scrape puts None in the place of a page whose fetch raised, and
\* chain.from_iterable raises TypeError on it.
get_all_offer_links(num_pages, pages) ==
    LET offer_links_nested ==
            [i \in 1 .. num_pages |->
                IF pages[i].kind = "raise" THEN [kind |-> "None"] ELSE pages[i]]
    IN  IF \E i \in 1 .. num_pages : offer_links_nested[i].kind = "None"
        THEN [raised |-> TRUE, links |-> <<>>]
        ELSE [raised |-> FALSE, links |-> Flatten(offer_links_nested)]

\* the statistics of a run that raised: none are returned
NoStats == [total_found |-> 0, new_offers |-> 0, updated_offers |-> 0,
            inactive_offers |-> 0, failed_scrapes |-> 0]

\* _update_database on the file f.  Every store call loads the file again;
\* failing is the store call whose save raises (0: none), and an exception
\* of a store call ends the run with the file as the calls before left it.
update_database_io(f, readable, failing, search_url, all_offer_links, scraped_offers, new_offer_links, t) ==
    LET added == IF scraped_offers # <<>>
                 THEN save_offers(f, add_new_offers(load_offers(f, readable),
                                                    scraped_offers, search_url, t),
                                  failing # 1)
                 ELSE [file |-> f, raised |-> FALSE, ret |-> 0]
        all_existing_urls == get_all_urls(load_offers(added.file, readable))
        InStore(u) == u \in all_existing_urls
        current_existing_urls == SelectSeq(all_offer_links, InStore)
        updated == IF current_existing_urls # <<>>
                   THEN save_offers(added.file,
                                    update_existing_offers(load_offers(added.file, readable),
                                                           current_existing_urls, t),
                                    failing # 2)
                   ELSE [file |-> added.file, raised |-> FALSE, ret |-> 0]
        marked == save_offers(updated.file,
                              mark_inactive(load_offers(updated.file, readable),
                                            all_offer_links, search_url, t),
                              failing # 3)
    IN  IF added.raised
        THEN [store |-> added.file, raised |-> TRUE, stats |-> NoStats]
        ELSE IF updated.raised
        THEN [store |-> updated.file, raised |-> TRUE, stats |-> NoStats]
        ELSE IF marked.raised
        THEN [store |-> marked.file, raised |-> TRUE, stats |-> NoStats]
        ELSE [store |-> marked.file, raised |-> FALSE,
              stats |-> [total_found     |-> Len(all_offer_links),
                         new_offers      |-> added.ret,
                         updated_offers  |-> updated.ret,
                         inactive_offers |-> marked.ret,
                         failed_scrapes  |-> Len(new_offer_links) - Len(scraped_offers)]]

\* update_offers on the file f: cause tells what ended a run that raised
update_offers_io(f, readable, failing, search_url, num_pages, pages, outcomes, t) ==
    LET found == get_all_offer_links(num_pages, pages)
        new_offer_links == NewOfferLinks(load_offers(f, readable), found.links)
        scraped_offers  == IF new_offer_links # <<>>
                           THEN scrape_offers(new_offer_links, outcomes)
                           ELSE <<>>
        r == update_database_io(f, readable, failing, search_url, found.links,
                                scraped_offers, new_offer_links, t)
    IN  IF found.raised
        THEN [store |-> f, raised |-> TRUE, cause |-> "discovery", stats |-> NoStats,
              links |-> <<>>]
        ELSE [store |-> r.store, raised |-> r.raised,
              cause |-> IF r.raised THEN "save" ELSE "none", stats |-> r.stats,
              links |-> found.links]

\* --------------------------------------------------------------- state
\* no call in progress
NoCall == [op |-> "idle"]

\* no Scraper.scrape call is followed thread by thread
NoPool == [returned |-> TRUE]

Init ==
    /\ store = EmptyStore
    /\ now = 0
    /\ call = NoCall
    /\ pool = NoPool

\* Time passes between operations; one operation reads one clock value
\* (the three store calls of a run see the same datetime.now()).
Tick ==
    /\ call = NoCall
    /\ now < MaxTime
    /\ now' = now + 1
    /\ UNCHANGED <<store, call, pool>>

\* OfferManager.update_offers(search_url)
Synchronize ==
    /\ call = NoCall
    /\ \E q \in Queries, links \in SeqsUpTo(Urls, MaxLinks) :
         \E outcomes \in [1 .. Len(NewOfferLinks(store, links)) -> FetchOutcomes] :
           \E r \in {update_offers(store, q, links, outcomes, now, now, now)} :
               /\ store' = r.store
               /\ call' = [op |-> "update_offers", pre |-> store, q |-> q,
                           links |-> links, fetched |-> r.fetched,
                           outcomes |-> outcomes, ret |-> r.stats]
    /\ UNCHANGED <<now, pool>>

\* OfferDatabase.add_new_offers(new_offers, search_url), called directly
AddNew ==
    /\ call = NoCall
    /\ \E q \in Queries, batch \in SeqsUpTo(Offers, MaxLinks) :
         \E r \in {add_new_offers(store, batch, q, now)} :
             /\ store' = r.store
             /\ call' = [op |-> "add_new_offers", pre |-> store, q |-> q,
                         batch |-> batch, ret |-> r.ret]
    /\ UNCHANGED <<now, pool>>

\* OfferDatabase.update_existing_offers(updated_offers), called directly
\* (the code reads its argument as set(updated_offers["url"]))
Refresh ==
    /\ call = NoCall
    /\ \E urls \in {SetToSeq(S) : S \in SUBSET Urls} :
         \E r \in {update_existing_offers(store, urls, now)} :
             /\ store' = r.store
             /\ call' = [op |-> "update_existing_offers", pre |-> store,
                         urls |-> urls, ret |-> r.ret]
    /\ UNCHANGED <<now, pool>>

\* OfferDatabase.mark_inactive(offer_urls, search_url), called directly
\* (the code reads its argument as set(offer_urls))
MarkInactive ==
    /\ call = NoCall
    /\ \E q \in Queries, urls \in {SetToSeq(S) : S \in SUBSET Urls} :
         \E r \in {mark_inactive(store, urls, q, now)} :
             /\ store' = r.store
             /\ call' = [op |-> "mark_inactive", pre |-> store, q |-> q,
                         urls |-> urls, ret |-> r.ret]
    /\ UNCHANGED <<now, pool>>

\* OfferDatabase.remove_duplicates()
RemoveDuplicates ==
    /\ call = NoCall
    /\ \E r \in remove_duplicates(store) :
         /\ store' = r.store
         /\ call' = [op |-> "remove_duplicates", pre |-> store, ret |-> r.ret]
    /\ UNCHANGED <<now, pool>>

\* the caller takes the returned value
Return ==
    /\ call # NoCall
    /\ call' = NoCall
    /\ UNCHANGED <<store, now, pool>>

Next ==
    \/ Tick
    \/ Synchronize
    \/ AddNew
    \/ Refresh
    \/ MarkInactive
    \/ RemoveDuplicates
    \/ Return

\* The store operations and the synchronization runs, from an empty store.
Spec == Init /\ [][Next]_vars

\* ------------------------------------------- deduplication of any store
\* A store file with any content: rows with any lifecycle values, any number
\* of rows per url (save_offers writes whatever frame it is given).
AnyRow ==
    {r \in {[url |-> o.url, page |-> o.page, first_seen |-> fs, last_seen |-> ls,
             is_active |-> act, search_url |-> q] :
                o \in Offers, fs \in 0 .. MaxTime, ls \in 0 .. MaxTime,
                act \in BOOLEAN, q \in Queries} :
        r.first_seen <= r.last_seen}

InitAnyStore ==
    /\ \E rows \in SeqsUpTo(AnyRow, MaxRows) : store = SeqToBag(rows)
    /\ now = MaxTime
    /\ call = NoCall
    /\ pool = NoPool

NextDedup ==
    \/ RemoveDuplicates
    \/ Return

SpecDedup == InitAnyStore /\ [][NextDedup]_vars

\* ------------------------------------------- operations on a faulty file
\* OfferManager.update_offers(search_url) with a file that may be unreadable
\* during the run, a save that may raise, and result pages that may raise
SynchronizeIO ==
    /\ call = NoCall
    /\ \E q \in Queries, readable \in BOOLEAN, failing \in 0 .. 3, num_pages \in 1 .. MaxPages :
         \E pages \in [1 .. num_pages -> PageOutcomes] :
           LET links == get_all_offer_links(num_pages, pages).links
               n     == Len(NewOfferLinks(load_offers(store, readable), links))
           IN  \E outcomes \in [1 .. n -> FetchOutcomes] :
                 \E r \in {update_offers_io(store, readable, failing, q, num_pages,
                                            pages, outcomes, now)} :
                     /\ store' = r.store
                     /\ call' = [op |-> "update_offers", pre |-> store, q |-> q,
                                 links |-> r.links, readable |-> readable,
                                 raised |-> r.raised, cause |-> r.cause,
                                 ret |-> r.stats]
    /\ UNCHANGED <<now, pool>>

\* a store operation called directly on such a file
AddNewIO ==
    /\ call = NoCall
    /\ \E q \in Queries, batch \in SeqsUpTo(Offers, MaxLinks),
          readable \in BOOLEAN, save_ok \in BOOLEAN :
         \E r \in {save_offers(store,
                              add_new_offers(load_offers(store, readable), batch, q, now),
                              save_ok)} :
             /\ store' = r.file
             /\ call' = [op |-> "add_new_offers", pre |-> store, q |-> q,
                         readable |-> readable, raised |-> r.raised, ret |-> r.ret]
    /\ UNCHANGED <<now, pool>>

RefreshIO ==
    /\ call = NoCall
    /\ \E urls \in {SetToSeq(S) : S \in SUBSET Urls},
          readable \in BOOLEAN, save_ok \in BOOLEAN :
         \E r \in {save_offers(store,
                              update_existing_offers(load_offers(store, readable), urls, now),
                              save_ok)} :
             /\ store' = r.file
             /\ call' = [op |-> "update_existing_offers", pre |-> store,
                         readable |-> readable, raised |-> r.raised, ret |-> r.ret]
    /\ UNCHANGED <<now, pool>>

MarkInactiveIO ==
    /\ call = NoCall
    /\ \E q \in Queries, urls \in {SetToSeq(S) : S \in SUBSET Urls},
          readable \in BOOLEAN, save_ok \in BOOLEAN :
         \E r \in {save_offers(store,
                              mark_inactive(load_offers(store, readable), urls, q, now),
                              save_ok)} :
             /\ store' = r.file
             /\ call' = [op |-> "mark_inactive", pre |-> store, q |-> q,
                         readable |-> readable, raised |-> r.raised, ret |-> r.ret]
    /\ UNCHANGED <<now, pool>>

RemoveDuplicatesIO ==
    /\ call = NoCall
    /\ \E readable \in BOOLEAN, save_ok \in BOOLEAN :
         \E d \in remove_duplicates(load_offers(store, readable)) :
           \E r \in {save_offers(store, d, save_ok)} :
               /\ store' = r.file
               /\ call' = [op |-> "remove_duplicates", pre |-> store,
                           readable |-> readable, raised |-> r.raised, ret |-> r.ret]
    /\ UNCHANGED <<now, pool>>

NextIO ==
    \/ Tick
    \/ SynchronizeIO
    \/ AddNewIO
    \/ RefreshIO
    \/ MarkInactiveIO
    \/ RemoveDuplicatesIO
    \/ Return

\* The operations, from an empty store, with store and fetch failures.
SpecIO == Init /\ [][NextIO]_vars


\* ------------------------------------------ one scrape call, by thread
\* scrape(urls) begins, for any urls, any behaviour of scrap_fn on them and
\* any num_workers >= 1
InitScrape ==
    /\ store = EmptyStore
    /\ now = 0
    /\ call = NoCall
    /\ \E urls \in SeqsUpTo(Urls, MaxItems), num_workers \in 1 .. MaxWorkers :
         \E outcomes \in [DOMAIN urls -> ScrapOutcomes] :
            pool = StartPool(urls, outcomes, num_workers)

\* the main thread submits the next url
Submit ==
    /\ ~pool.returned
    /\ pool.submitted < Len(pool.urls)
    /\ pool' = submit(pool)
    /\ UNCHANGED <<store, now, call>>

\* an idle worker thread takes the next unit of work
Take ==
    /\ ~pool.returned
    /\ pool.queue # <<>>
    /\ \E w \in DOMAIN pool.threads :
         /\ pool.threads[w].state = "idle"
         /\ pool' = take(pool, w)
    /\ UNCHANGED <<store, now, call>>

\* scrap_fn returns in a worker thread
ScrapReturns ==
    /\ ~pool.returned
    /\ \E w \in DOMAIN pool.threads :
         /\ pool.threads[w].state = "work"
         /\ pool.outcomes[pool.threads[w].item] = "ok"
         /\ pool' = scrap_returns(pool, w)
    /\ UNCHANGED <<store, now, call>>

\* scrap_fn raises in a worker thread
ScrapRaises ==
    /\ ~pool.returned
    /\ \E w \in DOMAIN pool.threads :
         /\ pool.threads[w].state = "work"
         /\ pool.outcomes[pool.threads[w].item] = "raise"
         /\ pool' = scrap_raises(pool, w)
    /\ UNCHANGED <<store, now, call>>

\* the pause of a worker thread is over
SleepEnds ==
    /\ ~pool.returned
    /\ \E w \in DOMAIN pool.threads :
         /\ pool.threads[w].state = "sleep"
         /\ pool' = sleep_ends(pool, w)
    /\ UNCHANGED <<store, now, call>>

\* the main thread, all urls submitted, takes the result of the next future
\* once that future is complete
Collect ==
    /\ ~pool.returned
    /\ pool.submitted = Len(pool.urls)
    /\ Len(pool.results) < Len(pool.urls)
    /\ LET i == next_future(pool)
       IN  /\ pool.future[i] \in {"result", "exception"}
           /\ pool' = collect(pool, i)
    /\ UNCHANGED <<store, now, call>>

\* the loop is over: the executor is shut down and scrape returns results
ReturnResults ==
    /\ ~pool.returned
    /\ pool.submitted = Len(pool.urls)
    /\ Len(pool.results) = Len(pool.urls)
    /\ pool' = [pool EXCEPT !.returned = TRUE]
    /\ UNCHANGED <<store, now, call>>

NextScrape ==
    \/ Submit
    \/ Take
    \/ ScrapReturns
    \/ ScrapRaises
    \/ SleepEnds
    \/ Collect
    \/ ReturnResults

\* One call of Scraper.scrape, thread by thread.
SpecScrape == InitScrape /\ [][NextScrape]_vars

\* the steps of the thread that called scrape
MainThread ==
    \/ Submit
    \/ Collect
    \/ ReturnResults

\* a call of scrap_fn ends, either way
WorkEnds ==
    \/ ScrapReturns
    \/ ScrapRaises

\* scrape(urls) begins, for any number of urls (which urls they are plays no
\* part in how the threads run), any behaviour of scrap_fn on each and any
\* num_workers >= 1
InitScrapeAny ==
    /\ store = EmptyStore
    /\ now = 0
    /\ call = NoCall
    /\ \E n \in 0 .. MaxItems, num_workers \in 1 .. MaxWorkers :
         \E outcomes \in [1 .. n -> ScrapOutcomes] :
            pool = StartPool([i \in 1 .. n |-> "A"], outcomes, num_workers)

\* One call of Scraper.scrape where every thread that can run does so in the
\* end: the calling thread goes on, an idle worker takes queued work, every
\* scrap_fn call returns or raises, and every time.sleep ends.
SpecScrapeFair ==
    /\ InitScrapeAny
    /\ [][NextScrape]_vars
    /\ WF_vars(MainThread)
    /\ WF_vars(Take)
    /\ WF_vars(WorkEnds)
    /\ WF_vars(SleepEnds)

\* ------------------------------------------- add_new_offers, any frame
\* The records a caller can put in a frame: offers with a url, and records
\* whose url is missing.
BatchOffers == Offers \cup {[url |-> NoUrl, page |-> u] : u \in Urls}

\* add_new_offers on a frame that may lack the url column: new_offers["url"]
\* raises KeyError after load_offers and before anything is saved.
add_new_offers_frame(s, new_offers, has_url_column, search_url, t) ==
    IF new_offers = <<>> THEN [store |-> s, ret |-> 0, raised |-> FALSE]
    ELSE IF ~has_url_column THEN [store |-> s, ret |-> 0, raised |-> TRUE]
    ELSE LET r == add_new_offers(s, new_offers, search_url, t)
         IN  [store |-> r.store, ret |-> r.ret, raised |-> FALSE]

\* the frame has no record with a url
AllMalformed(batch) == \A i \in DOMAIN batch : batch[i].url = NoUrl

\* OfferDatabase.add_new_offers(new_offers, search_url) on any frame; a
\* frame without a url column has no record with a url
AddNewBatch ==
    /\ call = NoCall
    /\ \E q \in Queries, batch \in SeqsUpTo(BatchOffers, MaxLinks) :
         \E has_url_column \in (IF AllMalformed(batch) THEN BOOLEAN ELSE {TRUE}) :
           \E r \in {add_new_offers_frame(store, batch, has_url_column, q, now)} :
               /\ store' = r.store
               /\ call' = [op |-> "add_new_offers", pre |-> store, q |-> q,
                           batch |-> batch, has_url_column |-> has_url_column,
                           raised |-> r.raised, ret |-> r.ret]
    /\ UNCHANGED <<now, pool>>

NextBatch ==
    \/ Tick
    \/ AddNewBatch
    \/ Return

\* Calls of add_new_offers with frames of any content.
SpecBatch == Init /\ [][NextBatch]_vars

\* ------------------------------------------------- discovery on its own
\* What get_offer_links_on_page can do for one result page when a page may
\* list up to MaxLinks offers.
PageResults ==
    {[kind |-> "raise"]} \cup
    {[kind |-> "list", links |-> l] : l \in SeqsUpTo(Urls, MaxLinks)}

\* What the page-count fetch can meet: the request fails, the pagination
\* is not found or its text is not a number, or int() reads a number from
\* the item before the next-page button (whatever number the page shows).
CountOutcomes ==
    {[kind |-> "fetch_failed"], [kind |-> "parse_failed"]} \cup
    {[kind |-> "number", n |-> n] : n \in 0 .. MaxPages}

\* get_offer_pages: every exception ends in last_page_num = 1
get_offer_pages(o) == IF o.kind = "number" THEN o.n ELSE 1

\* num_pages = num_pages_list[0] if num_pages_list else 1
num_pages_used(num_pages_list) ==
    IF num_pages_list # <<>> THEN num_pages_list[1] ELSE 1

\* OfferManager._get_all_offer_links(search_url)
Discover ==
    /\ call = NoCall
    /\ \E q \in Queries, count \in CountOutcomes :
         \E num_pages \in {num_pages_used(<<get_offer_pages(count)>>)} :
           \E pages \in [1 .. num_pages -> PageResults] :
             \E r \in {get_all_offer_links(num_pages, pages)} :
               call' = [op |-> "get_all_offer_links", q |-> q, count |-> count,
                        num_pages |-> num_pages,
                        pages |-> pages, raised |-> r.raised, links |-> r.links]
    /\ UNCHANGED <<store, now, pool>>

NextDiscover ==
    \/ Discover
    \/ Return

\* Calls of _get_all_offer_links.
SpecDiscover == Init /\ [][NextDiscover]_vars

\* ------------------------------------------------- a run, step by step
\* The steps of update_offers in program order: the page-count scrape, the
\* scrape of the result pages, get_all_urls, the scrape of the new offers,
\* and the three store calls of _update_database.
next_step_refresh_first(pc) ==
    CASE pc = "count_pages" -> "discover"
      [] pc = "discover"    -> "read_known"
      [] pc = "read_known"  -> "fetch"
      [] pc = "fetch"       -> "refresh"
      [] pc = "refresh"     -> "add_new"
      [] pc = "add_new"     -> "deactivate"
      [] pc = "deactivate"  -> "done"

next_step(pc) ==
    CASE pc = "count_pages" -> "discover"
      [] pc = "discover"    -> "read_known"
      [] pc = "read_known"  -> "fetch"
      [] pc = "fetch"       -> "add_new"
      [] pc = "add_new"     -> "refresh"
      [] pc = "refresh"     -> "deactivate"
      [] pc = "deactivate"  -> "done"

\* A url as the text path?k1=v1&k2=v2...: its path and its query parameters
\* in the order they are written.  The search url named q has no parameter.
SearchUrl(q) == [path |-> q, params |-> <<>>]

\* search_url.split("&page=")[0].split("?page=")[0]: the text before the
\* first page parameter, that is the parameters written before it
BeforePage(params) ==
    LET at == {i \in DOMAIN params : params[i].key = "page"}
        first == CHOOSE i \in at : \A j \in at : i <= j
    IN  SubSeq(params, 1, first - 1)

\* _generate_page_urls: "&page=i" (or "?page=i" when the base has no "?")
\* appended to the base url for the pages 1 .. num_pages
generate_page_urls(search_url, num_pages) ==
    LET base_url == IF \E i \in DOMAIN search_url.params : search_url.params[i].key = "page"
                    THEN [path |-> search_url.path, params |-> BeforePage(search_url.params)]
                    ELSE search_url
    IN  [page \in 1 .. num_pages |->
            [path   |-> base_url.path,
             params |-> Append(base_url.params, [key |-> "page", value |-> page])]]

\* the number of worker threads that are inside _internal_scrap
Busy(p) ==
    IF p = NoPool THEN 0
    ELSE Cardinality({w \in DOMAIN p.threads : p.threads[w].state \in {"work", "sleep"}})

\* what the run has done so far, with the worker threads busy at that moment
Event(c, ev) == [c EXCEPT !.log = Append(@, [ev |-> ev, busy |-> Busy(pool)])]

\* The files a run can start from: empty, or one offer A stored by an
\* earlier run of either search url, active or not.
KnownStores ==
    {EmptyStore} \cup
    {SetToBag({[url |-> "A", page |-> "A", first_seen |-> 0, last_seen |-> 0,
                is_active |-> act, search_url |-> q]}) : act \in BOOLEAN, q \in Queries}

\* update_offers(search_url) is called
InitRun ==
    /\ store \in KnownStores
    /\ now = 0
    /\ pool = NoPool
    /\ \E q \in Queries, num_workers \in 1 .. MaxWorkers :
         call = [op |-> "run", pc |-> "count_pages", scraping |-> FALSE, q |-> q,
                 num_workers |-> num_workers, pages |-> <<>>, links |-> <<>>,
                 new_links |-> <<>>, scraped |-> <<>>, raised |-> FALSE, log |-> <<>>]

\* a step of the main thread: it is not inside a scrape call
AtStep(pc) == call.op = "run" /\ call.pc = pc /\ ~call.scraping /\ ~call.raised

\* the scrape call of a step has returned its results
ScrapeReturned(pc) == call.op = "run" /\ call.pc = pc /\ call.scraping /\ pool.returned

\* Scraper(get_offer_pages, 1).scrape([search_url]) is called
CountPagesStart ==
    /\ AtStep("count_pages")
    /\ pool' = StartPool(<<call.q>>, <<"ok">>, 1)
    /\ call' = Event([call EXCEPT !.scraping = TRUE], "count_start")
    /\ UNCHANGED <<store, now>>

\* the page count is back (get_offer_pages returns 1 when it failed); what
\* the pages of the search will deliver is fixed here
CountPagesEnd ==
    /\ ScrapeReturned("count_pages")
    /\ \E num_pages \in 1 .. MaxPages :
         \E pages \in [1 .. num_pages -> PageOutcomes] :
            call' = Event([call EXCEPT !.scraping = FALSE, !.pages = pages,
                                       !.pc = next_step(call.pc)], "count_done")
    /\ pool' = NoPool
    /\ UNCHANGED <<store, now>>

\* links_scraper.scrape(page_links) is called
DiscoverStart ==
    /\ AtStep("discover")
    /\ pool' = StartPool(generate_page_urls(SearchUrl(call.q), Len(call.pages)),
                         [i \in DOMAIN call.pages |->
                             IF call.pages[i].kind = "raise" THEN "raise" ELSE "ok"],
                         call.num_workers)
    /\ call' = Event([call EXCEPT !.scraping = TRUE], "discover_start")
    /\ UNCHANGED <<store, now>>

\* the results of the pages are back and are flattened; None in the place
\* of a page makes chain.from_iterable raise, and the run with it
DiscoverEnd ==
    /\ ScrapeReturned("discover")
    /\ IF \E i \in DOMAIN pool.results : pool.results[i].kind = "None"
       THEN call' = Event([call EXCEPT !.scraping = FALSE, !.raised = TRUE], "discover_raised")
       ELSE call' = Event([call EXCEPT !.scraping = FALSE, !.links = Flatten(call.pages),
                                       !.pc = next_step(call.pc)], "discover_done")
    /\ pool' = NoPool
    /\ UNCHANGED <<store, now>>

\* existing_urls = self.database.get_all_urls(); new_offer_links
ReadKnown ==
    /\ AtStep("read_known")
    /\ call' = Event([call EXCEPT !.new_links = NewOfferLinks(store, call.links),
                                  !.pc = next_step(call.pc)], "get_all_urls")
    /\ UNCHANGED <<store, now, pool>>

\* offers_scraper.scrape(offer_links) is called when there are new links
FetchStart ==
    /\ AtStep("fetch")
    /\ call.new_links # <<>>
    /\ \E outcomes \in [DOMAIN call.new_links -> ScrapOutcomes] :
         pool' = StartPool(call.new_links, outcomes, call.num_workers)
    /\ call' = Event([call EXCEPT !.scraping = TRUE], "fetch_start")
    /\ UNCHANGED <<store, now>>

\* no new link: _scrape_offers is not called
FetchSkip ==
    /\ AtStep("fetch")
    /\ call.new_links = <<>>
    /\ call' = [call EXCEPT !.pc = next_step(call.pc)]
    /\ UNCHANGED <<store, now, pool>>

\* the results of the detail fetches are back; the failed ones are dropped
FetchEnd ==
    /\ ScrapeReturned("fetch")
    /\ call' = Event([call EXCEPT !.scraping = FALSE,
                                  !.scraped = ValidOffers(pool.results, call.new_links),
                                  !.pc = next_step(call.pc)], "fetch_done")
    /\ pool' = NoPool
    /\ UNCHANGED now
    /\ UNCHANGED store

\* _update_database: add_new_offers, when an offer was scraped
AddNewStep ==
    /\ AtStep("add_new")
    /\ IF call.scraped # <<>>
       THEN /\ store' = add_new_offers(store, call.scraped, call.q, now).store
            /\ call' = Event([call EXCEPT !.pc = next_step(call.pc)], "add_new")
       ELSE /\ store' = store
            /\ call' = [call EXCEPT !.pc = next_step(call.pc)]
    /\ UNCHANGED <<now, pool>>

\* _update_database: get_all_urls again, then update_existing_offers when a
\* discovered link is stored
RefreshStep ==
    /\ AtStep("refresh")
    /\ LET all_existing_urls == get_all_urls(store)
           InStore(u) == u \in all_existing_urls
           current_existing_urls == SelectSeq(call.links, InStore)
       IN  IF current_existing_urls # <<>>
           THEN /\ store' = update_existing_offers(store, current_existing_urls, now).store
                /\ call' = Event(Event([call EXCEPT !.pc = next_step(call.pc)],
                                       "get_all_urls"), "refresh")
           ELSE /\ store' = store
                /\ call' = Event([call EXCEPT !.pc = next_step(call.pc)], "get_all_urls")
    /\ UNCHANGED <<now, pool>>

\* _update_database: mark_inactive
DeactivateStep ==
    /\ AtStep("deactivate")
    /\ store' = mark_inactive(store, call.links, call.q, now).store
    /\ call' = Event([call EXCEPT !.pc = next_step(call.pc)], "deactivate")
    /\ UNCHANGED <<now, pool>>

NextRun ==
    \/ CountPagesStart
    \/ CountPagesEnd
    \/ DiscoverStart
    \/ DiscoverEnd
    \/ ReadKnown
    \/ FetchStart
    \/ FetchSkip
    \/ FetchEnd
    \/ AddNewStep
    \/ RefreshStep
    \/ DeactivateStep
    \/ Submit
    \/ Take
    \/ ScrapReturns
    \/ ScrapRaises
    \/ SleepEnds
    \/ Collect
    \/ ReturnResults

\* One run of update_offers: the main thread step by step, its scrape calls
\* thread by thread.
SpecRun == InitRun /\ [][NextRun]_vars

\* ------------------------------------------------ page urls on their own
MaxParams == 3

\* The query parameters a search url can carry.
Params ==
    {[key |-> "page", value |-> v] : v \in 1 .. MaxPages} \cup
    {[key |-> "make", value |-> "x"], [key |-> "order", value |-> "y"]}

SearchUrls == {[path |-> "s", params |-> ps] : ps \in SeqsUpTo(Params, MaxParams)}

\* OfferManager._generate_page_urls(search_url, num_pages)
GeneratePageUrls ==
    /\ call = NoCall
    /\ \E search_url \in SearchUrls, num_pages \in 1 .. MaxPages :
         call' = [op |-> "generate_page_urls", search_url |-> search_url,
                  num_pages |-> num_pages,
                  ret |-> generate_page_urls(search_url, num_pages)]
    /\ UNCHANGED <<store, now, pool>>

NextPageUrls ==
    \/ GeneratePageUrls
    \/ Return

\* Calls of _generate_page_urls.
SpecPageUrls == Init /\ [][NextPageUrls]_vars

\* ------------------------------------------ runs, result page by page
\* A result page of the site: the links it lists, and whether the fetch or
\* the parse of the page fails in a way get_offer_links_on_page handles.
SitePages ==
    {[listed |-> l, failed |-> b] : l \in SeqsUpTo(Urls, MaxLinks \div MaxPages), b \in BOOLEAN}

\* get_offer_links_on_page returning the links of a page that failed all the same
links_on_page_despite_failure(p) == p.listed

\* get_offer_links_on_page: the links of the page, [] after a handled failure
links_on_page(p) == IF p.failed THEN <<>> ELSE p.listed

\* OfferManager.update_offers(search_url) on a site given page by page
SynchronizePages ==
    /\ call = NoCall
    /\ \E q \in Queries, num_pages \in 1 .. MaxPages :
         \E site \in [1 .. num_pages -> SitePages] :
           \E found \in {get_all_offer_links(num_pages,
                             [i \in 1 .. num_pages |->
                                 [kind |-> "list", links |-> links_on_page(site[i])]])} :
             \E outcomes \in [1 .. Len(NewOfferLinks(store, found.links)) -> FetchOutcomes] :
               \E r \in {update_offers(store, q, found.links, outcomes, now, now, now)} :
                   /\ store' = r.store
                   /\ call' = [op |-> "update_offers", pre |-> store, q |-> q,
                               site |-> site, links |-> found.links,
                               fetched |-> r.fetched, outcomes |-> outcomes,
                               ret |-> r.stats]
    /\ UNCHANGED <<now, pool>>

NextPages ==
    \/ SynchronizePages
    \/ Return

\* Runs on a site whose result pages can fail, one after the other at one
\* clock value (the flags and the counts do not depend on the clock).
SpecPages == Init /\ [][NextPages]_vars

\* ------------------------------------------ runs that keep finding B
\* the run recorded in c fetched the url u and got no offer for it
FetchFailed(c, u) ==
    /\ c # NoCall
    /\ \E i \in DOMAIN c.fetched : c.fetched[i] = u
    /\ \A i \in DOMAIN c.fetched : c.fetched[i] = u => c.outcomes[i] # "ok"

\* the discovery results of a site that lists B, alone or after A
LinksWithB == {<<"B">>, <<"A", "B">>}

\* What the next run will meet: when it runs (the clock moving on or not),
\* for which search url, what discovery delivers (B is on the site for
\* every run) and what the detail fetch of each url does.  The record notes
\* whether the run before had failed to fetch B.
SiteForB ==
    /\ call.op # "pending"
    /\ call' \in [op : {"pending"},
                  t : {x \in now .. MaxTime : x <= now + 1},
                  q : Queries,
                  links : LinksWithB,
                  fetch : [Urls -> FetchOutcomes],
                  after_failure : {FetchFailed(call, "B")}]
    /\ UNCHANGED <<store, now, pool>>

\* on the site the next run meets, the detail fetch of B delivers the offer
SiteForBOk ==
    /\ SiteForB
    /\ call'.fetch["B"] = "ok"

\* the outcomes of the detail fetches of a run, in the order of the fetches
OutcomesOf(fetch, new_links) == [i \in 1 .. Len(new_links) |-> fetch[new_links[i]]]

\* OfferManager.update_offers(search_url) on what the site holds, statement
\* by statement: new_offer_links, _scrape_offers, then _update_database
\* (add_new_offers, update_existing_offers, mark_inactive) and the counts.
RunB ==
    /\ call.op = "pending"
    /\ \E new_offer_links \in {NewOfferLinks(store, call.links)} :
       \E outcomes \in {OutcomesOf(call.fetch, new_offer_links)} :
       \E scraped_offers \in {IF new_offer_links # <<>>
                              THEN scrape_offers(new_offer_links, outcomes)
                              ELSE <<>>} :
       \E added \in {IF scraped_offers # <<>>
                     THEN add_new_offers(store, scraped_offers, call.q, call.t)
                     ELSE [store |-> store, ret |-> 0]} :
       \E current_existing_urls \in {SelectSeq(call.links, LAMBDA u : u \in get_all_urls(added.store))} :
       \E updated \in {IF current_existing_urls # <<>>
                       THEN update_existing_offers(added.store, current_existing_urls, call.t)
                       ELSE [store |-> added.store, ret |-> 0]} :
       \E marked \in {mark_inactive(updated.store, call.links, call.q, call.t)} :
           /\ store' = marked.store
           /\ call' = [op |-> "update_offers", pre |-> store, q |-> call.q,
                       links |-> call.links, fetched |-> new_offer_links,
                       outcomes |-> outcomes,
                       ret |-> [total_found     |-> Len(call.links),
                                new_offers      |-> added.ret,
                                updated_offers  |-> updated.ret,
                                inactive_offers |-> marked.ret,
                                failed_scrapes  |-> Len(new_offer_links) - Len(scraped_offers)],
                       after_failure |-> call.after_failure]
    /\ now' = call.t
    /\ UNCHANGED pool

NextRetry ==
    \/ SiteForB
    \/ RunB

\* Runs repeated for ever, each discovering B, where the detail fetch of B
\* does not fail for ever: a run is made once the site is set, and a site on
\* which the fetch of B succeeds comes up if it is possible again and again.
SpecRetry == Init /\ [][NextRetry]_vars /\ WF_vars(RunB) /\ SF_vars(SiteForBOk)

\* ------------------------------------- two runs on the same XLSX file
\* What a detail fetch does for a url while the two runs go on.
RunFetchOutcomes == {"ok", "raise"}

\* The discovery results of the two runs: every link listed once (a link
\* listed twice in one run is stored twice by that run alone).
LinksOnce ==
    {l \in SeqsUpTo(Urls, MaxLinks) : \A i, j \in DOMAIN l : l[i] = l[j] => i = j}

\* a run of update_offers that has not been called yet; of the counts it
\* returns the record keeps new_offers, with the urls it added
IdleRun ==
    [pc |-> "idle", q |-> "q1", links |-> <<>>,
     scraped_offers |-> <<>>, current |-> <<>>,
     frame |-> EmptyStore, previous_urls |-> {},
     added |-> {}, new_offers |-> 0]

\* Two processes are about to call update_offers on the same file, which
\* holds what earlier runs left; the clock is past the times in the file.
InitTwo ==
    /\ store \in KnownStores
    /\ now = MaxTime
    /\ pool = NoPool
    /\ call = [op |-> "two_runs", run |-> <<IdleRun, IdleRun>>, overlap |-> FALSE]

\* the run has read the file and has not returned
Running(r) == r.pc \notin {"idle", "done"}

\* Run i has taken a step and is now as in r: the record of the two runs,
\* noting whether the step was taken while the other run was going on.
StepOf(c, i, r) ==
    [c EXCEPT !.run[i] = r, !.overlap = @ \/ Running(c.run[3 - i])]

\* load_offers finding no file or failing to read it
LoadFrame_empty(r, file) == EmptyStore

\* load_offers as a store operation calls it: the file is read again
LoadFrame(r, file) == file

\* update_offers(search_url) is called (the runs are numbered in the order
\* of their first read of the file): discovery delivers links, then
\* existing_urls = get_all_urls(), new_offer_links, and _scrape_offers with
\* what the detail fetch of each url does
RunReadKnown(i) ==
    /\ call.run[i].pc = "idle"
    /\ i = 2 => call.run[1].pc # "idle"
    /\ \E q \in Queries, links \in LinksOnce, fetch \in [Urls -> RunFetchOutcomes] :
       \E new_offer_links \in {NewOfferLinks(store, links)} :
       \E scraped_offers \in {IF new_offer_links # <<>>
                              THEN scrape_offers(new_offer_links, OutcomesOf(fetch, new_offer_links))
                              ELSE <<>>} :
         call' = StepOf(call, i, [call.run[i] EXCEPT
                     !.pc = IF scraped_offers # <<>> THEN "add_load" ELSE "refresh_read",
                     !.q = q,
                     !.links = links,
                     !.scraped_offers = scraped_offers])
    /\ UNCHANGED <<store, now, pool>>

\* the load_offers() of add_new_offers, update_existing_offers or
\* mark_inactive
RunLoad(i) ==
    /\ call.run[i].pc \in {"add_load", "refresh_load", "mark_load"}
    /\ call' = StepOf(call, i, [call.run[i] EXCEPT
                   !.pc = CASE @ = "add_load" -> "add_save"
                            [] @ = "refresh_load" -> "refresh_save"
                            [] OTHER -> "mark_previous",
                   !.frame = LoadFrame(call.run[i], store)])
    /\ UNCHANGED <<store, now, pool>>

\* add_new_offers after its load: the frame with the new rows is written over
\* the file (no write when no url is new).  The locals of a store operation
\* end with it.
RunAddSave(i) ==
    /\ call.run[i].pc = "add_save"
    /\ \E r \in {add_new_offers(call.run[i].frame, call.run[i].scraped_offers, call.run[i].q, now)} :
         /\ store' = IF r.saved THEN r.store ELSE store
         /\ call' = StepOf(call, i, [call.run[i] EXCEPT
                        !.pc = "refresh_read",
                        !.scraped_offers = <<>>,
                        !.frame = EmptyStore,
                        !.new_offers = r.ret,
                        !.added = get_all_urls(r.store) \ get_all_urls(call.run[i].frame)])
    /\ UNCHANGED <<now, pool>>

\* all_existing_urls = get_all_urls(), current_existing_urls
RunRefreshRead(i) ==
    /\ call.run[i].pc = "refresh_read"
    /\ \E current \in {SelectSeq(call.run[i].links, LAMBDA u : u \in get_all_urls(store))} :
         call' = StepOf(call, i, [call.run[i] EXCEPT
                     !.pc = IF current # <<>> THEN "refresh_load" ELSE "mark_load",
                     !.current = current])
    /\ UNCHANGED <<store, now, pool>>

\* update_existing_offers after its load: the frame is written over the file
RunRefreshSave(i) ==
    /\ call.run[i].pc = "refresh_save"
    /\ \E r \in {update_existing_offers(call.run[i].frame, call.run[i].current, now)} :
         /\ store' = IF r.saved THEN r.store ELSE store
         /\ call' = StepOf(call, i, [call.run[i] EXCEPT
                        !.pc = "mark_load", !.current = <<>>, !.frame = EmptyStore])
    /\ UNCHANGED <<now, pool>>

\* mark_inactive: previous_urls = get_urls_for_search_url(search_url), which
\* reads the file once more
RunMarkPrevious(i) ==
    /\ call.run[i].pc = "mark_previous"
    /\ call' = StepOf(call, i, [call.run[i] EXCEPT
                   !.pc = "mark_save",
                   !.previous_urls = get_urls_for_search_url(store, call.run[i].q)])
    /\ UNCHANGED <<store, now, pool>>

\* mark_inactive on the frame it loaded, with the previous_urls it read
mark_inactive_loaded(offers, previous_urls, offer_urls, t) ==
    LET current_urls == SeqRange(offer_urls)
        missing_urls == previous_urls \ current_urls
        Mark(r) == IF r.url \in missing_urls
                   THEN [r EXCEPT !.is_active = FALSE, !.last_seen = t]
                   ELSE r
    IN  IF missing_urls # {}
        THEN [store |-> MapRows(offers, [r \in DOMAIN offers |-> Mark(r)]),
              ret |-> Cardinality(missing_urls), saved |-> TRUE]
        ELSE [store |-> offers, ret |-> 0, saved |-> FALSE]

\* mark_inactive after its reads: the frame is written over the file when a
\* url is missing; update_offers returns
RunMarkSave(i) ==
    /\ call.run[i].pc = "mark_save"
    /\ \E r \in {mark_inactive_loaded(call.run[i].frame, call.run[i].previous_urls, call.run[i].links, now)} :
         /\ store' = IF r.saved THEN r.store ELSE store
         /\ call' = StepOf(call, i, [call.run[i] EXCEPT
                        !.pc = "done", !.frame = EmptyStore, !.previous_urls = {}])
    /\ UNCHANGED <<now, pool>>

NextTwo ==
    \/ \E i \in 1 .. 2 : RunReadKnown(i)
    \/ \E i \in 1 .. 2 : RunLoad(i)
    \/ \E i \in 1 .. 2 : RunAddSave(i)
    \/ \E i \in 1 .. 2 : RunRefreshRead(i)
    \/ \E i \in 1 .. 2 : RunRefreshSave(i)
    \/ \E i \in 1 .. 2 : RunMarkPrevious(i)
    \/ \E i \in 1 .. 2 : RunMarkSave(i)

\* Two calls of update_offers on one file, their store reads and writes
\* interleaved in any order (no lock is taken anywhere).
SpecTwo == InitTwo /\ [][NextTwo]_vars

\* -------------------------------------------------------------- claims
\* the call that has just returned is a synchronization run
IsRun == call.op = "update_offers"

\* the identities discovered by the run
Discovered == SeqRange(call.links)

\* The scenario of the tests: [A, B, C] on an empty store, then [A, C, D].
ScenarioHolds(q, t) ==
    LET ok3  == <<"ok", "ok", "ok">>
        run1 == update_offers(EmptyStore, q, <<"A", "B", "C">>, ok3, t, t, t)
        run2 == update_offers(run1.store, q, <<"A", "C", "D">>, <<"ok">>, t, t, t)
    IN  /\ run1.stats.total_found = 3
        /\ run1.stats.new_offers = 3
        /\ run1.stats.inactive_offers = 0
        /\ run2.stats.total_found = 3
        /\ run2.stats.new_offers = 1
        /\ run2.stats.inactive_offers = 1
        /\ get_all_urls(run2.store) = {"A", "B", "C", "D"}
        /\ \A r \in DOMAIN run2.store : r.is_active <=> r.url # "B"

\* C1: after a synchronization run of q every stored row whose url was
\* discovered in the run is active and every stored row of search url q
\* whose url was not discovered is inactive; total_found is the number of
\* links discovered; and the scenario [A, B, C] then [A, C, D] gives
\* (3, 3, 0) and (3, 1, 1), with B inactive and A, C, D active.
C1_ActiveIffDiscovered ==
    /\ IsRun =>
        /\ \A r \in DOMAIN store : r.url \in Discovered => r.is_active
        /\ \A r \in DOMAIN store :
              (r.search_url = call.q /\ r.url \notin Discovered) => ~r.is_active
        /\ call.ret.total_found = Len(call.links)
    /\ (call = NoCall /\ store = EmptyStore) => \A q \in Queries : ScenarioHolds(q, now)

\* a run added one offer, deactivated a stored offer of its query that it did
\* not discover, and left the discovered one active
C1_Witness ==
    /\ IsRun
    /\ call.ret.new_offers = 1
    /\ call.ret.inactive_offers = 1
    /\ \E r \in DOMAIN call.pre : r.is_active /\ r.search_url = call.q /\ r.url \notin Discovered
    /\ \E r \in DOMAIN store : ~r.is_active /\ r.search_url = call.q
    /\ \E r \in DOMAIN store : r.is_active /\ r.url \in Discovered

\* the values of a field-tuple over the rows of a url
Lifecycle(s, u) == {<<r.first_seen, r.search_url, r.page>> : r \in RowsOf(s, {u})}

FirstSeen(s, u) == {r.first_seen : r \in RowsOf(s, {u})}

LastSeen(s, u) == {r.last_seen : r \in RowsOf(s, {u})}

\* the positions of the detail fetches of the run made for the url
FetchesOf(u) == {i \in DOMAIN call.fetched : call.fetched[i] = u}

\* the identities the run had to fetch, and those with no successful fetch
NewIdentities == SeqRange(call.fetched)

FailedIdentities == {u \in NewIdentities : \A i \in FetchesOf(u) : call.outcomes[i] # "ok"}

\* C2: in a run where n discovered identities are not in the store and the
\* detail fetch fails for k of them, new_offers = n - k, failed_scrapes = k,
\* the store gains one row for each of the n - k fetched identities and none
\* for a failed one, and every row gained holds the page of its own url.
C2_FailureIsolation ==
    IsRun =>
        LET n == Cardinality(NewIdentities)
            k == Cardinality(FailedIdentities)
        IN  /\ call.ret.new_offers = n - k
            /\ call.ret.failed_scrapes = k
            /\ \A u \in NewIdentities \ FailedIdentities : Copies(store, u) = 1
            /\ \A u \in FailedIdentities : Copies(store, u) = 0
            /\ \A r \in DOMAIN store : r.url \in NewIdentities => r.page = r.url

\* C3: a run on a store with at most one row per url leaves at most one row
\* per url, whatever the discovery result.
C3_OneRowPerIdentity ==
    (IsRun /\ \A u \in Urls : Copies(call.pre, u) <= 1)
        => \A u \in Urls : Copies(store, u) <= 1

\* a call of remove_duplicates has just returned
IsDedup == call.op = "remove_duplicates"

\* C4: after remove_duplicates, whatever the file held, at most one row
\* with each url remains.
C4_UniqueAfterDedup ==
    IsDedup => \A u \in Urls : Copies(store, u) <= 1

\* a file with several rows of one url, active and inactive, was deduplicated
C4_Witness ==
    /\ IsDedup
    /\ call.ret > 0
    /\ \E u \in Urls :
         /\ Copies(call.pre, u) > 1
         /\ \E r1, r2 \in RowsOf(call.pre, {u}) : r1.is_active /\ ~r2.is_active

\* C5: of the rows of one url remove_duplicates keeps one of them, an
\* active one if there is any, and none of the rows of the same activity
\* status has a later last_seen than the row kept.
C5_SurvivorRule ==
    IsDedup =>
        \A u \in get_all_urls(call.pre) :
            \A r \in RowsOf(store, {u}) :
                /\ r \in DOMAIN call.pre
                /\ (\E a \in RowsOf(call.pre, {u}) : a.is_active) => r.is_active
                /\ \A r2 \in RowsOf(call.pre, {u}) :
                      r2.is_active = r.is_active => r.last_seen >= r2.last_seen

\* an active row with an older last_seen survived an inactive row with a
\* newer one
C5_Witness ==
    /\ IsDedup
    /\ \E u \in Urls :
         \E r1, r2 \in RowsOf(call.pre, {u}) :
            /\ r1.is_active /\ ~r2.is_active /\ r1.last_seen < r2.last_seen
            /\ Copies(call.pre, u) = 2
            /\ RowsOf(store, {u}) = {r1}
            /\ store[r1] = 1

\* the run again, for the same query, with the same discovery result
SecondRuns ==
    {update_offers(store, call.q, call.links, outcomes, t, t, t) :
        outcomes \in [1 .. Len(NewOfferLinks(store, call.links)) -> FetchOutcomes],
        t \in now .. MaxTime}

\* no row of the store s has another first_seen in the store s2
FirstSeenKept(s, s2) == \A u \in get_all_urls(s) : FirstSeen(s2, u) = FirstSeen(s, u)

\* C6 as stated: a second run in a row with an unchanged discovery result
\* returns new_offers = 0 and leaves first_seen of every record unchanged.
C6_Original ==
    IsRun => \A r2 \in SecondRuns :
                /\ r2.stats.new_offers = 0
                /\ FirstSeenKept(store, r2.store)

\* C6 amended: when no detail fetch of the first run failed, the second run
\* in a row with an unchanged discovery result returns new_offers = 0; and
\* whatever the first run did, the second leaves first_seen of every record
\* unchanged.
C6_Idempotence ==
    IsRun => \A r2 \in SecondRuns :
                /\ call.ret.failed_scrapes = 0 => r2.stats.new_offers = 0
                /\ FirstSeenKept(store, r2.store)

\* a first run added offers without a failure; the second can run later
C6_Witness ==
    /\ IsRun
    /\ call.ret.failed_scrapes = 0
    /\ call.ret.new_offers = 2
    /\ now < MaxTime

\* the calls that C7 is about
IsStoreWrite ==
    call.op \in {"add_new_offers", "update_existing_offers", "mark_inactive", "update_offers"}

\* C7: add_new_offers, update_existing_offers, mark_inactive and a run never
\* decrease last_seen of an identity; update_existing_offers of a stored
\* identity at a time after its last_seen leaves last_seen greater.
C7_MonotonicLastSeen ==
    /\ IsStoreWrite =>
        \A u \in get_all_urls(call.pre) :
            \A old \in LastSeen(call.pre, u), new \in LastSeen(store, u) : new >= old
    /\ call.op = "update_existing_offers" =>
        \A u \in SeqRange(call.urls) \cap get_all_urls(call.pre) :
            \A old \in LastSeen(call.pre, u), new \in LastSeen(store, u) :
                now > old => new > old

\* a stored identity was refreshed at a later time
C7_Witness ==
    /\ call.op = "update_existing_offers"
    /\ \E u \in SeqRange(call.urls) \cap get_all_urls(call.pre) :
         /\ \E old \in LastSeen(call.pre, u) : now > old
         /\ LastSeen(store, u) = {now}

\* the observed urls of a run or of a call of mark_inactive
Observed ==
    IF call.op = "update_offers" THEN SeqRange(call.links) ELSE SeqRange(call.urls)

\* C8: a row turns from active to inactive only in a run, or a call of
\* mark_inactive, for the row's own search url that did not observe the
\* row's url; so a run of another query deactivates nothing of this query.
C8_ScopedDeactivation ==
    call # NoCall =>
        \A u \in Urls, q \in Queries :
            InactiveCopies(store, u, q) > InactiveCopies(call.pre, u, q) =>
                /\ call.op \in {"update_offers", "mark_inactive"}
                /\ call.q = q
                /\ u \notin Observed

\* a run of a query that discovered nothing deactivated its own offer and
\* left an active offer of the other query active
C8_Witness ==
    /\ IsRun
    /\ call.links = <<>>
    /\ call.ret.inactive_offers = 1
    /\ \E r \in DOMAIN call.pre : r.is_active /\ r.search_url # call.q /\ r \in DOMAIN store
    /\ \E r \in DOMAIN store : ~r.is_active /\ r.search_url = call.q

\* the urls of inactive rows of the search url
InactiveOf(s, q) == {r.url : r \in {x \in DOMAIN s : ~x.is_active /\ x.search_url = q}}

\* C9: an identity with an inactive record that a run of its search url
\* discovers again is active after the run, is not fetched, gets no further
\* row, and keeps first_seen, search_url and its scraped features.
C9_Reactivation ==
    IsRun =>
        \A u \in Discovered \cap InactiveOf(call.pre, call.q) :
            /\ \A r \in RowsOf(store, {u}) : r.is_active
            /\ u \notin SeqRange(call.fetched)
            /\ Copies(store, u) = Copies(call.pre, u)
            /\ Lifecycle(store, u) = Lifecycle(call.pre, u)

\* an inactive offer was discovered again by a run of its search url
C9_Witness ==
    /\ IsRun
    /\ \E u \in Discovered \cap InactiveOf(call.pre, call.q) :
         \A r \in RowsOf(store, {u}) : r.is_active

\* C10: first_seen of an identity is the time add_new_offers created its
\* record and no later call of any operation changes it.
C10_FirstSeenWriteOnce ==
    call # NoCall =>
        /\ \A u \in get_all_urls(call.pre) : FirstSeen(store, u) = FirstSeen(call.pre, u)
        /\ \A u \in get_all_urls(store) \ get_all_urls(call.pre) :
              /\ call.op \in {"add_new_offers", "update_offers"}
              /\ FirstSeen(store, u) = {now}

\* a record created earlier went through a later call that wrote its row
C10_Witness ==
    /\ call # NoCall
    /\ \E u \in get_all_urls(call.pre) :
         /\ \E r \in RowsOf(call.pre, {u}) : r \notin DOMAIN store
         /\ \E fs \in FirstSeen(store, u) : fs < now

\* the search urls of the rows of a url
SourceQuery(s, u) == {r.search_url : r \in RowsOf(s, {u})}

\* C11: the search_url of a record is the search url of the call that
\* created it, and no later call of any operation changes it, a run of
\* another query that refreshes or reactivates the record included.
C11_SourceQueryWriteOnce ==
    call # NoCall =>
        /\ \A u \in get_all_urls(call.pre) : SourceQuery(store, u) = SourceQuery(call.pre, u)
        /\ \A u \in get_all_urls(store) \ get_all_urls(call.pre) :
              /\ call.op \in {"add_new_offers", "update_offers"}
              /\ SourceQuery(store, u) = {call.q}

\* a run of one query discovered, and reactivated, an inactive record of
\* the other query
C11_Witness ==
    /\ IsRun
    /\ \E r \in DOMAIN call.pre :
         /\ r.search_url # call.q
         /\ ~r.is_active
         /\ r.url \in Discovered
         /\ \A r2 \in RowsOf(store, {r.url}) : r2.is_active /\ r2.search_url = r.search_url

\* the urls of a batch of scraped offers
BatchUrls(batch) == {batch[i].url : i \in DOMAIN batch}

\* C12: add_new_offers appends rows only for urls that no row of the store
\* has, whatever the search_url of the stored row; leaves every stored row
\* as it was; stamps every appended row with first_seen = last_seen = now,
\* is_active = TRUE and the search url of the call; and returns the number
\* of rows appended (0 for an empty batch).
C12_AddNewContract ==
    call.op = "add_new_offers" =>
        /\ \A r \in DOMAIN call.pre : r \in DOMAIN store /\ store[r] = call.pre[r]
        /\ \A r \in DOMAIN store \ DOMAIN call.pre :
              /\ r.url \in BatchUrls(call.batch) \ get_all_urls(call.pre)
              /\ r.first_seen = now /\ r.last_seen = now
              /\ r.is_active
              /\ r.search_url = call.q
              /\ r.page = r.url
        /\ get_all_urls(store) = get_all_urls(call.pre) \cup BatchUrls(call.batch)
        /\ call.ret = Rows(store) - Rows(call.pre)
        /\ call.batch = <<>> => call.ret = 0

\* a batch with a url stored under the other search url and a url not
\* stored: one row appended
C12_Witness ==
    /\ call.op = "add_new_offers"
    /\ call.ret = 1
    /\ Len(call.batch) = 2
    /\ \E r \in DOMAIN call.pre : r.url \in BatchUrls(call.batch) /\ r.search_url # call.q

\* C13: add_new_offers, update_existing_offers, mark_inactive and a run,
\* also with a load of the file that fails, never take a url out of the
\* file and never decrease its number of rows.
C13_NoDeletion ==
    (call # NoCall /\ call.op # "remove_duplicates") =>
        /\ get_all_urls(call.pre) \subseteq get_all_urls(store)
        /\ Rows(store) >= Rows(call.pre)

\* C14: a run in which a save raised leaves the file as it was before the
\* run.
C14_SaveAllOrNothing ==
    (IsRun /\ call.raised /\ call.cause = "save") => store = call.pre

\* C15: a run raises only for a failure of the store, whatever the page
\* fetches and the detail fetches do; otherwise it returns the statistics.
C15_AlwaysSummary ==
    (IsRun /\ call.raised) => call.cause = "save"

\* the scrape call followed thread by thread has returned its results
Returned == pool # NoPool /\ pool.returned /\ ~pool.raised

\* what the work function gives for position i: its result, or None in the
\* place of an exception
Outcome(p, i) ==
    IF p.outcomes[i] = "raise" THEN [kind |-> "None"]
    ELSE get_offer(p.urls[i], p.outcomes[i])

\* C16: scrape returns a list as long as urls whose i-th element is the
\* result of the work function for urls[i], or None when it raised,
\* whatever the order in which the futures completed, for every
\* num_workers >= 1.
C16_OrderPreserved ==
    Returned =>
        /\ Len(pool.results) = Len(pool.urls)
        /\ \A i \in DOMAIN pool.urls : pool.results[i] = Outcome(pool, i)
        /\ pool.results = scrape(pool.urls, pool.outcomes)

\* the future of a later url completed first, and the results of the two
\* urls differ
C16_Witness ==
    /\ Returned
    /\ \E k, l \in DOMAIN pool.finished :
         /\ k < l
         /\ pool.finished[k] > pool.finished[l]
         /\ pool.results[pool.finished[k]] # pool.results[pool.finished[l]]

\* C17: no exception of a unit of work leaves scrape; the call returns, the
\* place of a unit that raised holds None, every other unit was run and
\* its place holds its result.
C17_FailureIsolated ==
    /\ pool # NoPool => ~pool.raised
    /\ Returned =>
        \A i \in DOMAIN pool.urls :
            /\ pool.calls[i] >= 1
            /\ pool.outcomes[i] = "raise" => pool.results[i] = [kind |-> "None"]
            /\ pool.outcomes[i] # "raise" =>
                  pool.results[i] = [kind |-> "dict", page |-> pool.urls[i]]

\* a unit raised between two units that returned
C17_Witness ==
    /\ Returned
    /\ Len(pool.urls) = 3
    /\ pool.outcomes = <<"ok", "raise", "ok">>
    /\ pool.results[2] = [kind |-> "None"]

\* C18: the work function is never called twice for a position of urls,
\* and when scrape returns it was called once for each, also when other
\* units raised.
C18_ExactlyOnce ==
    pool # NoPool =>
        /\ \A i \in DOMAIN pool.urls : pool.calls[i] <= 1
        /\ Returned => \A i \in DOMAIN pool.urls : pool.calls[i] = 1

\* a call with more urls than threads, one of them raising, has returned
C18_Witness ==
    /\ Returned
    /\ Len(pool.urls) > Len(pool.threads)
    /\ \E i \in DOMAIN pool.urls : pool.outcomes[i] = "raise"
    /\ \A i \in DOMAIN pool.urls : pool.calls[i] = 1

\* the units of work in progress: taken by a thread and not yet complete,
\* the pause included
InProgress(p) == {w \in DOMAIN p.threads : p.threads[w].state \in {"work", "sleep"}}

\* C19: at every moment of a scrape call at most num_workers units of work
\* are in progress.
C19_BoundedConcurrency ==
    pool # NoPool => Cardinality(InProgress(pool)) <= pool.num_workers

\* num_workers units are in progress and another waits in the queue
C19_Witness ==
    /\ pool # NoPool
    /\ Cardinality(InProgress(pool)) = pool.num_workers
    /\ pool.queue # <<>>

\* C20: a thread that runs a unit of work had slept since the unit it ran
\* before, whether that one returned or raised.
C20_PausePerWorker ==
    pool # NoPool =>
        \A w \in DOMAIN pool.threads :
            pool.threads[w].state = "work" => pool.threads[w].paced

\* The scenario of the tests, for updated_offers: [A, B, C] on an empty store
\* (three added), then [A, C, D] (two known, one added).
UpdatedScenarioHolds(q, t) ==
    LET ok3  == <<"ok", "ok", "ok">>
        run1 == update_offers(EmptyStore, q, <<"A", "B", "C">>, ok3, t, t, t)
        run2 == update_offers(run1.store, q, <<"A", "C", "D">>, <<"ok">>, t, t, t)
    IN  /\ run1.stats.updated_offers = 3
        /\ run1.stats.new_offers = 3
        /\ run2.stats.updated_offers = 3
        /\ run2.stats.new_offers = 1

\* the number of rows of s whose url is in U
RowCount(s, U) == SumOver({r \in DOMAIN s : r.url \in U}, s)

\* C21: updated_offers of a run is the number of discovered urls that were
\* stored before the run started; the urls added by the run are not counted.
C21_UpdatedCountsKnown ==
    IsRun => call.ret.updated_offers = Cardinality(Discovered \cap get_all_urls(call.pre))

NewlyInactivated ==
    Cardinality({u \in Urls :
        /\ \E r \in DOMAIN call.pre : r.url = u /\ r.is_active
        /\ \A x \in DOMAIN store : x.url = u => ~x.is_active})

\* C23: inactive_offers of a run is the number of rows whose is_active went
\* from true to false in the run; a row that was inactive before the run and
\* is still not discovered is not counted again.
C23_InactiveCountsNewly ==
    IsRun => call.ret.inactive_offers = NewlyInactivated

\* a run of another search url that follows the run just returned, every
\* detail fetch delivering an offer
RunsOfOtherQueries ==
    {update_offers(store, q2, links2, [i \in 1 .. Len(NewOfferLinks(store, links2)) |-> "ok"], now, now, now) :
        q2 \in Queries \ {call.q}, links2 \in SeqsUpTo(Urls, MaxLinks)}

\* C24 as stated: a record is active if and only if its url was discovered
\* in the most recent run of its own search url, also after a run of another
\* search url has followed.
C24_ActiveIffLastCrawlOfSource ==
    IsRun =>
        /\ \A x \in DOMAIN store :
              x.search_url = call.q => (x.is_active <=> x.url \in Discovered)
        /\ \A r2 \in RunsOfOtherQueries : \A x \in DOMAIN r2.store :
              x.search_url = call.q => (x.is_active <=> x.url \in Discovered)

\* C24 amended: a record is active if and only if its url was discovered in
\* the most recent run that concerned it, a run of its own search url or a
\* run of any search url that discovered it.  Run by run: a discovered url
\* is active, an undiscovered url of the run's search url is inactive, and
\* an undiscovered row of another search url is left as it was.
C24_ActiveIffLastConcerningCrawl ==
    IsRun =>
        \A x \in DOMAIN store :
            /\ x.url \in Discovered => x.is_active
            /\ (x.url \notin Discovered /\ x.search_url = call.q) => ~x.is_active
            /\ (x.url \notin Discovered /\ x.search_url # call.q) =>
                  (x \in DOMAIN call.pre /\ call.pre[x] = store[x])

\* a run of one search url discovered a url stored inactive under another
\* search url, and the record is active again
C24_Witness ==
    /\ IsRun
    /\ \E r \in DOMAIN call.pre, x \in DOMAIN store :
          /\ r.url = x.url
          /\ r.url \in Discovered
          /\ r.search_url # call.q
          /\ x.search_url = r.search_url
          /\ ~r.is_active
          /\ x.is_active

\* C25: when a run of any search url discovers a url that is already stored,
\* whatever the search url of its record, the record has last_seen = the time
\* of the run and is active after the run.
C25_CrossQueryRefresh ==
    IsRun =>
        \A x \in DOMAIN store :
            (x.url \in Discovered /\ x.url \in get_all_urls(call.pre)) =>
                (x.last_seen = now /\ x.is_active)

\* a run discovered a url stored earlier under another search url, inactive
\* there, and the run moved its last_seen
C25_Witness ==
    /\ IsRun
    /\ \E r \in DOMAIN call.pre :
          /\ r.url \in Discovered
          /\ r.search_url # call.q
          /\ r.last_seen < now
          /\ ~r.is_active
          /\ [r EXCEPT !.last_seen = now, !.is_active = TRUE] \in DOMAIN store

\* C26: a run never calls the detail fetch for a url that is in the store
\* when the run starts, whatever the search url or the active flag of its
\* record.
C26_NoRefetchOfKnown ==
    IsRun => SeqRange(call.fetched) \cap get_all_urls(call.pre) = {}

\* a run discovered a url stored inactive under another search url together
\* with a url not stored, and fetched only the latter
C26_Witness ==
    /\ IsRun
    /\ call.fetched # <<>>
    /\ \E r \in DOMAIN call.pre :
          /\ r.url \in Discovered
          /\ r.search_url # call.q
          /\ ~r.is_active
          /\ r.url \notin SeqRange(call.fetched)

\* C27: within one run the detail fetch is attempted at most once for each
\* url that is not in the store, however many times the url appears in the
\* discovery result and whether the attempt succeeds or fails.
C27_FetchAtMostOnce ==
    IsRun => \A u \in Urls : Cardinality(FetchesOf(u)) <= 1

\* the records of the frame that have a url
WellFormed(batch) ==
    LET HasUrl(o) == o.url # NoUrl
    IN  SelectSeq(batch, HasUrl)

\* C28: add_new_offers called with records that lack the url (no url column,
\* or a missing url) stores no record for them, whether it returns or
\* raises: no stored row is without url, a call that raises leaves the file
\* as it was, a frame without any url leaves the file as it was, and the
\* file after the call is what the records with a url alone would give.
C28_MalformedBatch ==
    call.op = "add_new_offers" =>
        /\ \A x \in DOMAIN store : x.url # NoUrl
        /\ call.raised => store = call.pre
        /\ AllMalformed(call.batch) => (store = call.pre /\ (call.raised \/ call.ret = 0))
        /\ ~call.raised =>
              /\ store = add_new_offers(call.pre, WellFormed(call.batch), call.q, now).store
              /\ call.ret = Rows(store) - Rows(call.pre)

\* a frame held a record without url next to a new offer: the call returned
\* 1 and stored the offer only
C28_Witness ==
    /\ call.op = "add_new_offers"
    /\ ~call.raised
    /\ \E i \in DOMAIN call.batch : call.batch[i].url = NoUrl
    /\ call.ret = 1
    /\ Rows(store) = Rows(call.pre) + 1

\* the links of the result pages 1 .. n in page order, a page that failed
\* contributing none
RECURSIVE PagesInOrder(_, _)
PagesInOrder(pages, n) ==
    IF n = 0 THEN <<>>
    ELSE PagesInOrder(pages, n - 1) \o
         (IF pages[n].kind = "list" THEN pages[n].links ELSE <<>>)

\* C29: discovery returns the links of the result pages 1 .. P in page
\* order, repetitions kept, a page whose fetch or parse failed contributing
\* the empty list; the failure of a page does not make discovery fail.
C29_DiscoveryConcatenates ==
    call.op = "get_all_offer_links" =>
        /\ ~call.raised
        /\ call.links = PagesInOrder(call.pages, call.num_pages)

\* the places of an event in the log of the run
Places(ev) == {i \in DOMAIN call.log : call.log[i].ev = ev}

\* every event a of the run came before every event b
Precedes(a, b) == \A i \in Places(a), j \in Places(b) : i < j

\* the store calls of a run, and those that write
StoreReads == {"get_all_urls"}
StoreWrites == {"add_new", "refresh", "deactivate"}

\* C30: in a run all page fetches are over before the stored urls are read
\* and before a detail fetch starts; all detail fetches are over before the
\* first store write; the store writes come in the order add_new_offers,
\* update_existing_offers, mark_inactive; and no store call is made while a
\* worker thread runs a fetch.
C30_Sequencing ==
    call.op = "run" =>
        /\ Precedes("discover_start", "discover_done")
        /\ Precedes("discover_done", "get_all_urls")
        /\ Precedes("discover_done", "fetch_start")
        /\ Precedes("fetch_start", "fetch_done")
        /\ \A w \in StoreWrites : Precedes("fetch_start", w) /\ Precedes("fetch_done", w)
        /\ Precedes("add_new", "refresh")
        /\ Precedes("add_new", "deactivate")
        /\ Precedes("refresh", "deactivate")
        /\ \A i \in DOMAIN call.log :
              call.log[i].ev \in StoreReads \cup StoreWrites => call.log[i].busy = 0
        /\ Busy(pool) > 0 => call.scraping
        /\ (Places("get_all_urls") # {} \/ Places("fetch_start") # {}) => Places("discover_done") # {}
        /\ (call.pc \in StoreWrites /\ call.new_links # <<>>) => Places("fetch_done") # {}

\* a run that fetched pages and details with its worker threads and made the
\* three store writes has ended
C30_Witness ==
    /\ call.op = "run"
    /\ call.pc = "done"
    /\ Len(call.pages) > 1
    /\ \A ev \in {"discover_done", "fetch_done", "add_new", "refresh", "deactivate"} :
          Places(ev) # {}

\* C31: discovery always fetches at least one result page; when the page
\* count cannot be determined it uses 1, and the page count it uses is never
\* zero or negative.
C31_FailOpenPageCount ==
    call.op = "get_all_offer_links" =>
        /\ call.count.kind # "number" => call.num_pages = 1
        /\ call.num_pages >= 1
        /\ Len(call.pages) >= 1

\* the parameters of a url other than page, in the order they are written
OtherParams(params) ==
    LET NotPage(x) == x.key # "page"
    IN  SelectSeq(params, NotPage)

\* C32: for a search url and a page count P >= 1 exactly P page urls are
\* made, in order, the i-th with exactly one page parameter, of value i, and
\* with every other parameter of the search url, wherever a page parameter
\* stood in it.
C32_PageUrls ==
    call.op = "generate_page_urls" =>
        /\ Len(call.ret) = call.num_pages
        /\ \A i \in DOMAIN call.ret :
              /\ call.ret[i].path = call.search_url.path
              /\ Cardinality({j \in DOMAIN call.ret[i].params :
                                 call.ret[i].params[j].key = "page"}) = 1
              /\ \E j \in DOMAIN call.ret[i].params :
                    call.ret[i].params[j] = [key |-> "page", value |-> i]
              /\ OtherParams(call.ret[i].params) = OtherParams(call.search_url.params)

\* C33: update_existing_offers sets last_seen = now and is_active = true on
\* exactly the stored rows whose url is in its argument, keeping their other
\* fields, and returns their number; it creates no row for a url that is not
\* stored, and every row whose url is not in the argument is left as it was
\* (with only unknown urls it returns 0 and changes nothing).
C33_RefreshContract ==
    call.op = "update_existing_offers" =>
        LET U == SeqRange(call.urls)
        IN  /\ \A x \in DOMAIN store : x.url \in U =>
                  /\ x.last_seen = now /\ x.is_active
                  /\ \E r \in DOMAIN call.pre :
                        x = [r EXCEPT !.last_seen = now, !.is_active = TRUE]
            /\ \A r \in DOMAIN call.pre : r.url \notin U =>
                  (r \in DOMAIN store /\ store[r] = call.pre[r])
            /\ \A x \in DOMAIN store : x.url \notin U => x \in DOMAIN call.pre
            /\ \A u \in Urls : Copies(store, u) = Copies(call.pre, u)
            /\ call.ret = RowCount(call.pre, U)
            /\ U \cap get_all_urls(call.pre) = {} => (call.ret = 0 /\ store = call.pre)

\* a refresh of a stored inactive url, with
\* another stored row outside the argument of an older last_seen: it
\* returned the rows of the stored url
C33_Witness ==
    /\ call.op = "update_existing_offers"
    /\ call.ret >= 1
    /\ \E r \in DOMAIN call.pre :
          r.url \in SeqRange(call.urls) /\ ~r.is_active /\ r.last_seen < now
    /\ \E r \in DOMAIN store :
          r.url \notin SeqRange(call.urls) /\ r.last_seen < now

\* C34: remove_duplicates removes rows only: the urls of the file are the
\* same before and after, every row left is a row of the file before with
\* all its fields, the value returned is rows before minus rows after, which
\* is rows before minus the number of urls, and a second remove_duplicates
\* right after returns 0 and leaves the file as it is.
C34_DedupRemovesOnly ==
    IsDedup =>
        /\ get_all_urls(store) = get_all_urls(call.pre)
        /\ \A x \in DOMAIN store : x \in DOMAIN call.pre /\ store[x] <= call.pre[x]
        /\ call.ret = Rows(call.pre) - Rows(store)
        /\ call.ret = Rows(call.pre) - Cardinality(get_all_urls(call.pre))
        /\ \A r2 \in remove_duplicates(store) : r2.ret = 0 /\ r2.store = store

\* a file held two different rows of a url, one inactive; one row was
\* removed and one is left
C34_Witness ==
    /\ IsDedup
    /\ call.ret = 1
    /\ Rows(store) = 1
    /\ \E r \in DOMAIN call.pre : r \notin DOMAIN store /\ ~r.is_active

\* C35: last_seen of a record changes only in a run that discovers its url or
\* that turns it from active to inactive: a record that is inactive before a
\* run and whose url the run does not discover has the same last_seen after.
C35_LastSeenOfInactiveKept ==
    IsRun =>
        \A r \in DOMAIN call.pre :
            (~r.is_active /\ r.url \notin Discovered) =>
                \A x \in DOMAIN store : x.url = r.url => x.last_seen = r.last_seen

\* the urls the site lists on pages that failed in the run and on no page
\* that was read
OnlyOnFailedPages ==
    {u \in Urls :
        /\ \E i \in DOMAIN call.site : call.site[i].failed /\ u \in SeqRange(call.site[i].listed)
        /\ \A i \in DOMAIN call.site : ~call.site[i].failed => u \notin SeqRange(call.site[i].listed)}

\* the runs that can follow and discover the url u
LaterRunsObserving(u) ==
    UNION {{update_offers(store, q2, links2, outcomes, now, now, now) :
              outcomes \in [1 .. Len(NewOfferLinks(store, links2)) -> FetchOutcomes]} :
           q2 \in Queries, links2 \in {l \in SeqsUpTo(Urls, MaxLinks) : u \in SeqRange(l)}}

\* C36: when a result page fails in a run of q and so contributes no link,
\* every active record of q whose url is listed on that page only is
\* inactive after the run and is counted in inactive_offers, and it is
\* active again after the next run, of any search url, that discovers it.
C36_FailedPageDeactivates ==
    IsRun =>
        \A u \in OnlyOnFailedPages :
            (\E r \in DOMAIN call.pre : r.url = u /\ r.is_active /\ r.search_url = call.q) =>
                /\ \A x \in DOMAIN store : x.url = u => ~x.is_active
                /\ u \in get_urls_for_search_url(call.pre, call.q) \ Discovered
                /\ call.ret.inactive_offers =
                      Cardinality(get_urls_for_search_url(call.pre, call.q) \ Discovered)
                /\ \A r2 \in LaterRunsObserving(u) :
                      \A x \in DOMAIN r2.store : x.url = u => x.is_active

\* a run read one page and failed on the other, which lists an active record
\* of its search url: the record is inactive and counted
C36_Witness ==
    /\ IsRun
    /\ Len(call.site) = 2
    /\ call.links # <<>>
    /\ call.ret.inactive_offers = 1
    /\ \E u \in OnlyOnFailedPages :
          \E r \in DOMAIN call.pre : r.url = u /\ r.is_active /\ r.search_url = call.q

\* after a run: a url whose fetches all failed has no record and is fetched
\* again by any next run that discovers it; a url fetched with success has
\* first_seen = the time of the run and the search url of the run
RetriedNextRun ==
    IsRun =>
        /\ \A u \in FailedIdentities :
              /\ u \notin get_all_urls(store)
              /\ \A links2 \in SeqsUpTo(Urls, MaxLinks) :
                    u \in SeqRange(links2) => u \in SeqRange(NewOfferLinks(store, links2))
        /\ \A u \in NewIdentities \ FailedIdentities :
              \A x \in DOMAIN store : x.url = u =>
                  (x.first_seen = now /\ x.search_url = call.q)

\* C37: a url whose detail fetch failed in a run has no record after the
\* run and is fetched again by the next run that discovers it; when every
\* run discovers it and its fetch does not fail for ever, it is stored in
\* the end, with first_seen = the time of the run whose fetch succeeded and
\* that run's search url.
C37_RetriedUntilStored ==
    /\ []RetriedNextRun
    /\ <>("B" \in get_all_urls(store))

\* the run after a run that failed to fetch B, at a later time, fetched B
\* with success and stored it
C37_Witness ==
    /\ IsRun
    /\ call.after_failure
    /\ now > 0
    /\ "B" \in NewIdentities \ FailedIdentities
    /\ \E x \in DOMAIN store : x.url = "B" /\ x.first_seen = now /\ x.search_url = call.q

\* both runs have returned
BothDone == call.op = "two_runs" /\ \A i \in 1 .. 2 : call.run[i].pc = "done"

\* a url that run i added and counted in new_offers is not in the file
LostBy(i) ==
    {u \in call.run[i].added : u \notin get_all_urls(store)}

\* run i counted in new_offers exactly the rows it added
CountedAdded(i) == call.run[i].new_offers >= Cardinality(call.run[i].added)

\* C38: when two runs on the same file do not overlap (one returns before
\* the other is called), every url a run added and counted in new_offers is
\* in the file when both have returned, filed under the search url of a run
\* that added it.
C38_SerializedRunsLoseNothing ==
    (BothDone /\ ~call.overlap) =>
        \A i \in 1 .. 2 :
            /\ CountedAdded(i)
            /\ LostBy(i) = {}
            /\ \A u \in call.run[i].added :
                  \E x \in DOMAIN store : x.url = u /\ x.search_url = call.run[i].q /\ x.first_seen = now

\* two overlapping runs have returned, one of them added a record and
\* counted it in new_offers, and the record is not in the file
C38_Witness ==
    /\ BothDone
    /\ call.overlap
    /\ \E i \in 1 .. 2 :
          /\ call.run[i].new_offers >= 1
          /\ LostBy(i) # {}

\* scrape has returned with a result for every url, the queue is empty and
\* no thread runs or sleeps
ReturnedClean ==
    (pool # NoPool /\ pool.returned) =>
        /\ ~pool.raised
        /\ Len(pool.results) = Len(pool.urls)
        /\ pool.queue = <<>>
        /\ InProgress(pool) = {}
        /\ \A i \in DOMAIN pool.urls : pool.future[i] \in {"result", "exception"}

\* scrape of no urls: no thread is started and no unit of work is run
EmptyRunsNoWork ==
    (pool # NoPool /\ pool.urls = <<>>) =>
        /\ pool.threads = <<>>
        /\ pool.submitted = 0
        /\ Returned => pool.results = <<>>

\* C39: when every call of scrap_fn returns or raises and the threads keep
\* running, scrape returns, for any urls and any num_workers >= 1; it then has
\* a result for every url and no unit of work runs or waits; with no urls it
\* returns the empty list and runs no work.
C39_ScrapeTerminates ==
    /\ []ReturnedClean
    /\ []EmptyRunsNoWork
    /\ <>Returned

\* a call with more urls than threads, work having waited in the queue while
\* every thread was busy, one unit raising, has returned
C39_Witness ==
    /\ Returned
    /\ Len(pool.urls) > pool.num_workers
    /\ Len(pool.threads) = pool.num_workers
    /\ \E i \in DOMAIN pool.urls : pool.outcomes[i] = "raise"
    /\ Len(pool.results) = Len(pool.urls)
    /\ InProgress(pool) = {}

====
